---- MODULE Spec2Model ----
(***************************************************************************)
(* Synthetic CRM dataset generator (generator/generate.py) and its         *)
(* validator (generator/validate.py).                                      *)
(*                                                                         *)
(* generate() is one sequential function; the model cuts it at the         *)
(* section comments of the source into steps and keeps the position in pc. *)
(* Every call on the seeded Rng is a choice from a small set of the values *)
(* that call can return.  Real-valued draws are kept as hundredths, and a  *)
(* scale factor as a pair <<numerator, denominator>>.                      *)
(*                                                                         *)
(* Record fields that no later step of generate() reads and validate()     *)
(* never inspects (annualRevenue, isCustomer, stage) are not represented.  *)
(* A name "a b" is the sequence of its tokens, a date "YYYY-MM-DD" is the  *)
(* record of its three fields, and the placeholder "" of a date is NoDate. *)
(***************************************************************************)
EXTENDS Integers, Sequences, FiniteSets, TLC

\* ---------------------------------------------------------------------
\* settings.py, scaled to a population TLC can enumerate
\* ---------------------------------------------------------------------
NUM_REPS == 2
NUM_ACCOUNTS == 2
NUM_OPPORTUNITIES == 2

OPPS_PER_ACCOUNT_MIN == 0
OPPS_PER_ACCOUNT_MAX == 2

TAM_PER_DEVELOPER == 1000

\* hundredths
COVERAGE_PCT_MIN == 50
COVERAGE_PCT_MAX == 100
AMOUNT_MULTIPLIER_MIN == 50
AMOUNT_MULTIPLIER_MAX == 200
RECENT_CLOSE_PCT == 50
MISSING_CLOSE_PCT == 50
QUOTA_MULTIPLIER_ON_TERRITORY_PIPELINE == 90

TOTAL_PIPELINE_TARGET == 1500
TOTAL_PIPELINE_MIN == 1350
TOTAL_PIPELINE_MAX == 1950

AMOUNT_RETRY_LIMIT == 2

QUOTA_MIN == 300
QUOTA_MAX == 1200

PRODUCTS == <<"Devin", "Windsurf">>

RECENT_CLOSE_WINDOW ==
    [start |-> [y |-> 2025, m |-> 10, d |-> 1], end |-> [y |-> 2026, m |-> 2, d |-> 18]]
FUTURE_CLOSE_WINDOW ==
    [start |-> [y |-> 2026, m |-> 2, d |-> 19], end |-> [y |-> 2026, m |-> 9, d |-> 30]]

\* ---------------------------------------------------------------------
\* bounds of the enumeration
\* ---------------------------------------------------------------------
\* largest head count _num_developers is let to compute before max(1, .)
MaxDevs == 2
\* a randint(a, b) with b - a above this is drawn at its two ends only
MaxDrawSpan == 2
\* steps of the grid the coverage and the amount multipliers are drawn from
CoverageGrid == 3
MultiplierGrid == 1

\* _reconcile_opp_counts on its own: the largest target, starting count and
\* band end tried
RecMaxTarget == 3
RecMaxCount == 3
RecMaxBand == 2

\* the largest NUM_REPS tried when the rep count is varied
MaxReps == 3

\* _enforce_tam_int on its own: the longest list, the largest amount and the
\* largest tam tried
EnforceMaxLen == 3
EnforceMaxAmount == 3
EnforceMaxTam == 5

\* _try_global_scale on its own: amounts are the multiples of ScaleUnit up to
\* ScaleSteps of them
ScaleUnit == 400
ScaleSteps == 3

\* ---------------------------------------------------------------------
\* arithmetic helpers
\* ---------------------------------------------------------------------
Max2(a, b) == IF a >= b THEN a ELSE b
Abs(x) == IF x < 0 THEN -x ELSE x

RECURSIVE SumSeq(_)
SumSeq(s) == IF s = <<>> THEN 0 ELSE Head(s) + SumSeq(Tail(s))

\* Python round() of the non-negative rational n/d: nearest integer, a tie
\* going to the even neighbour.
PyRound(n, d) ==
    LET q == n \div d
        r == n % d
    IN  IF 2 * r < d THEN q
        ELSE IF 2 * r > d THEN q + 1
        ELSE IF q % 2 = 0 THEN q ELSE q + 1

\* ---------------------------------------------------------------------
\* double arithmetic: int(round(fl(t / n) * fl(p / q))), the two quotients
\* and their product each rounded to a 53-bit double.  The result leaves the
\* rounding of the exact rational only when the exact product is a tie
\* k + 1/2 and the double lands beside it.
\* ---------------------------------------------------------------------
\* the F with 2^F * q <= p < 2^(F+1) * q, for positive p and q
RECURSIVE FloorLog2(_, _)
FloorLog2(p, q) ==
    IF p >= 2 * q THEN FloorLog2(p, 2 * q) + 1
    ELSE IF p < q THEN FloorLog2(2 * p, q) - 1
    ELSE 0

\* (p * 2^k) % q
RECURSIVE Rem2(_, _, _)
Rem2(p, q, k) == IF k = 0 THEN p % q ELSE (2 * Rem2(p, q, k - 1)) % q

\* the double nearest to p / q, as <<F, c>>: it is p / q + c / (q * 2^(52 - F))
DoubleQuotient(p, q) ==
    LET F == FloorLog2(p, q)
        r == Rem2(p, q, 52 - F)
    IN  <<F, IF 2 * r < q THEN 0 - r ELSE q - r>>

\* int(round((t / float(n)) * (p / float(q)))) for t, p >= 0 and n, q > 0
RoundProduct(t, n, p, q) ==
    LET num == t * p
        den == n * q
    IN  IF num = 0 THEN 0
        ELSE IF (2 * num) % den # 0 \/ num % den = 0 THEN PyRound(num, den)
        ELSE LET e1 == DoubleQuotient(t, n)
                 e2 == DoubleQuotient(p, q)
                 S  == IF e1[1] < e2[1] THEN e1[1] ELSE e2[1]
                 \* the first-order error of the product of the two doubles
                 N1 == t * e2[2] * 2^(e2[1] - S) + p * e1[2] * 2^(e1[1] - S)
                 sh == S + 1 - FloorLog2(num, den)
                 L  == Abs(N1) * (IF sh >= 0 THEN 2^sh ELSE 1)
                 R  == den * (IF sh >= 0 THEN 1 ELSE 2^(0 - sh))
             IN  \* the error reaches half an ulp of the product: the product
                 \* rounds off the tie, towards the side of the error
                 IF L > R \/ (L = R /\ N1 # 0 /\ (e1[2] * e2[2] > 0) = (N1 > 0) /\ e1[2] * e2[2] # 0)
                 THEN (IF N1 > 0 THEN (num \div den) + 1 ELSE num \div den)
                 ELSE PyRound(num, den)

\* int(round(a * (p / float(q))))
RoundScaled(a, p, q) == RoundProduct(a, 1, p, q)

\* rationals as <<numerator, denominator>>, denominator > 0
RatLess(a, b) == a[1] * b[2] < b[1] * a[2]
RatMin(a, b) == IF RatLess(b, a) THEN b ELSE a

\* ---------------------------------------------------------------------
\* dates
\* ---------------------------------------------------------------------
NoDate == [y |-> 0, m |-> 0, d |-> 0]

IsLeap(y) == (y % 4 = 0 /\ y % 100 # 0) \/ y % 400 = 0

DaysInMonth(y, m) ==
    IF m = 2 THEN (IF IsLeap(y) THEN 29 ELSE 28)
    ELSE IF m \in {4, 6, 9, 11} THEN 30 ELSE 31

DateLE(a, b) ==
    \/ a.y < b.y
    \/ a.y = b.y /\ a.m < b.m
    \/ a.y = b.y /\ a.m = b.m /\ a.d <= b.d

\* datetime._days_before_year / _days_before_month / date.toordinal
DaysBeforeYear(y) == 365 * (y - 1) + (y - 1) \div 4 - (y - 1) \div 100 + (y - 1) \div 400

RECURSIVE DaysBeforeMonth(_, _)
DaysBeforeMonth(y, m) ==
    IF m <= 1 THEN 0 ELSE DaysBeforeMonth(y, m - 1) + DaysInMonth(y, m - 1)

ToOrdinal(dt) == DaysBeforeYear(dt.y) + DaysBeforeMonth(dt.y, dt.m) + dt.d

\* (end - start).days
\* the number of days of the window, both ends counted
DaysBetweenInclusive(a, b) == ToOrdinal(b) - ToOrdinal(a) + 1

DaysBetween(a, b) == ToOrdinal(b) - ToOrdinal(a)

\* start + timedelta(days=n), n >= 0, a month at a time
RECURSIVE AddDays(_, _)
AddDays(dt, n) ==
    IF dt.d + n <= DaysInMonth(dt.y, dt.m) THEN [dt EXCEPT !.d = dt.d + n]
    ELSE AddDays(IF dt.m < 12 THEN [y |-> dt.y, m |-> dt.m + 1, d |-> 1]
                 ELSE [y |-> dt.y + 1, m |-> 1, d |-> 1],
                 n - (DaysInMonth(dt.y, dt.m) - dt.d + 1))

\* validate._is_ymd: date.fromisoformat accepts the string
IsYmd(dt) == dt.y >= 1 /\ dt.m \in 1..12 /\ dt.d \in 1..DaysInMonth(dt.y, dt.m)

\* ---------------------------------------------------------------------
\* the values an Rng call can return
\* ---------------------------------------------------------------------
RandintDraws(a, b) == IF b - a <= MaxDrawSpan THEN a..b ELSE {a, b}

\* the doubles uniform() is taken to return are multiples of 1 / DrawDen, so
\* that they, and their products with a TAM, are exact in double arithmetic
DrawBits == 6
DrawDen == 2^DrawBits

\* uniform(a, b) for a, b in hundredths, as numerators over DrawDen: the
\* points of an even grid of the given number of steps over [a, b]
UniformDraws(a, b, steps) ==
    LET lo == (a * DrawDen + 99) \div 100
        hi == (b * DrawDen) \div 100
    IN  {lo + ((hi - lo) * j) \div steps : j \in 0..steps}

\* Rng.date_between: the offsets randint(0, days) can return
DateOffsets(start, end) == RandintDraws(0, DaysBetween(start, end))

\* date_between one day late
date_between_late(start, offset) == AddDays(start, offset + 1)

date_between(start, offset) == AddDays(start, offset)

\* ---------------------------------------------------------------------
\* pure helpers of generate.py
\* ---------------------------------------------------------------------
\* _clamp_int, applied to an integer x
\* a clamp that forgets its lower end
_clamp_int_no_floor(x, lo, hi) == IF x > hi THEN hi ELSE x

_clamp_int(x, lo, hi) == IF x < lo THEN lo ELSE IF x > hi THEN hi ELSE x

\* _num_developers: devs is int(round(total_employees * developer_pct))
_num_developers(devs) == Max2(1, devs)

\* settings.TAM_PER_DEVELOPER * numDevelopers
TamOf(acct) == TAM_PER_DEVELOPER * acct.numDevelopers

\* max(range(len(s)), key=...): the first position holding the largest value
ArgMax(s) ==
    CHOOSE i \in 1..Len(s) :
        /\ \A j \in 1..Len(s) : s[j] <= s[i]
        /\ \A j \in 1..(i - 1) : s[j] < s[i]

\* the rounded amounts returned as they are, the while loop left out
FixUpSkipped(scaled, tam) == scaled

\* the while loop of _enforce_tam_int
RECURSIVE FixUp(_, _)
FixUp(scaled, tam) ==
    IF SumSeq(scaled) > tam /\ (\E j \in 1..Len(scaled) : scaled[j] > 0)
    THEN LET i == ArgMax(scaled)
         IN  IF scaled[i] <= 0 THEN scaled
             ELSE FixUp([scaled EXCEPT ![i] = scaled[i] - 1], tam)
    ELSE scaled

\* _enforce_tam_int with the scaling left out
_enforce_tam_int_noop(amounts, tam) == amounts

_enforce_tam_int(amounts, tam) ==
    LET total == SumSeq(amounts)
    IN  IF total <= tam THEN amounts
        ELSE IF total <= 0 THEN amounts
        ELSE FixUp([j \in 1..Len(amounts) |-> RoundScaled(amounts[j], tam, total)], tam)

\* the raw amounts of one account and their enforcement
\* (the loop body of _generate_amounts_for_accounts for n > 0);
\* coverage and the multipliers us[j] are numerators over DrawDen, so that
\* x = tam * coverage and x * u are exact doubles and round() rounds the exact
\* product
AccountAmounts(tam, coverage, us) ==
    _enforce_tam_int([j \in 1..Len(us) |->
                        PyRound(tam * coverage * us[j], DrawDen * DrawDen)], tam)

\* sum(sum(v) for v in per_acct_amounts.values())
GrandTotal(amts) == SumSeq([a \in 1..Len(amts) |-> SumSeq(amts[a])])

\* k_max of _try_global_scale over the accounts a..Len(accts), starting at k
RECURSIVE KMax(_, _, _, _)
KMax(accts, amts, a, k) ==
    IF a > Len(accts) THEN k
    ELSE LET t == SumSeq(amts[accts[a].id])
         IN  IF t <= 0 THEN KMax(accts, amts, a + 1, k)
             ELSE KMax(accts, amts, a + 1,
                       IF k = <<>> THEN <<TamOf(accts[a]), t>>
                       ELSE RatMin(k, <<TamOf(accts[a]), t>>))

\* the factor with the ratio upside down: total / TOTAL_PIPELINE_TARGET
KAppliedInverted(accts, amts) ==
    LET total == GrandTotal(amts)
        k_ideal == <<total, TOTAL_PIPELINE_TARGET>>
    IN  IF total < TOTAL_PIPELINE_TARGET THEN k_ideal
        ELSE LET k_max == KMax(accts, amts, 1, <<>>)
             IN  IF k_max = <<>> THEN k_ideal ELSE RatMin(k_ideal, k_max)

\* the factor k_applied; <<>> stands for float("inf")
KApplied(accts, amts) ==
    LET total == GrandTotal(amts)
        k_ideal == <<TOTAL_PIPELINE_TARGET, total>>
    IN  IF TOTAL_PIPELINE_TARGET < total THEN k_ideal
        ELSE LET k_max == KMax(accts, amts, 1, <<>>)
             IN  IF k_max = <<>> THEN k_ideal ELSE RatMin(k_ideal, k_max)

\* every amount multiplied by TOTAL_PIPELINE_TARGET / total and rounded, with
\* neither the headroom cap on the factor nor the TAM enforcement
_try_global_scale_uncapped(accts, amts) ==
    IF GrandTotal(amts) <= 0 THEN amts
    ELSE [a \in 1..Len(accts) |->
            [j \in 1..Len(amts[a]) |->
               PyRound(amts[a][j] * TOTAL_PIPELINE_TARGET, GrandTotal(amts))]]

_try_global_scale(accts, amts) ==
    IF GrandTotal(amts) <= 0 THEN amts
    ELSE LET k == KApplied(accts, amts)
         IN  IF k[1] = k[2] THEN amts
             ELSE [a \in 1..Len(accts) |->
                     IF amts[a] = <<>> THEN <<>>
                     ELSE _enforce_tam_int(
                            [j \in 1..Len(amts[a]) |-> RoundScaled(amts[a][j], k[1], k[2])],
                            TamOf(accts[a]))]

\* ---------------------------------------------------------------------
\* state
\* ---------------------------------------------------------------------
VARIABLES
    first_names, last_names, nouns, suffixes, industries_vocab, state_to_region,
    pc, err, accounts, territories, reps, opp_counts, total, iters, attempt, best,
    best_dist, opportunities,
    settings, args, ret, draws,
    app_state, run_tab, inbox_tab, timers, now, dialog

\* app_state is the AppState the tabs of the desktop application share (runs,
\* issues, selected_run_id, loaded_data_path), run_tab and inbox_tab the
\* attributes of RunTab and InboxTab, timers the number of single-shot
\* _finish_run callbacks Qt holds, now the wall clock in days, dialog the
\* output path a slot waiting in a modal question holds.
\* settings holds the values of settings.py that a run reads and that the
\* specifications below vary; args, ret and draws are the arguments, the result
\* and the number of draws from the random source of a call made on its own
\* (validate, Rng.date_between).
\* total is the local of _reconcile_opp_counts, and after that call the local
\* total of generate() (lines 300 and 313); iters counts the iterations the two
\* loops of _reconcile_opp_counts have made in the current call

inputs == <<first_names, last_names, nouns, suffixes, industries_vocab, state_to_region>>
callvars == <<settings, args, ret, draws>>
appvars == <<app_state, run_tab, inbox_tab, timers, now, dialog>>
vars == <<first_names, last_names, nouns, suffixes, industries_vocab, state_to_region,
          pc, err, accounts, territories, reps, opp_counts, total, iters, attempt,
          best, best_dist, opportunities, settings, args, ret, draws,
          app_state, run_tab, inbox_tab, timers, now, dialog>>

Range(s) == {s[i] : i \in 1..Len(s)}

\* the vocabulary files and the states/regions JSON the run reads
\* (read_text_list never returns an empty list)
VocabConfigs ==
    { [first_names |-> <<"Ann", "Bob">>, last_names |-> <<"Lee">>,
       nouns |-> <<"Acme", "Apex">>, suffixes |-> <<"Inc">>,
       industries_vocab |-> <<"Retail">>,
       state_to_region |-> [CA |-> "West"]],
      [first_names |-> <<"Ann">>, last_names |-> <<"Lee">>,
       nouns |-> <<"Acme">>, suffixes |-> <<"Inc">>,
       industries_vocab |-> <<"Retail", "Mining">>,
       state_to_region |-> [CA |-> "West", NY |-> "East"]] }

\* position of an industry name in sorted() order
IndustryRank(ind) == CASE ind = "Mining" -> 1 [] ind = "Retail" -> 2

\* the industries in descending order
RECURSIVE SortedIndustriesDescending(_)
SortedIndustriesDescending(S) ==
    IF S = {} THEN <<>>
    ELSE LET last == CHOOSE x \in S : \A y \in S : IndustryRank(x) >= IndustryRank(y)
         IN  <<last>> \o SortedIndustriesDescending(S \ {last})

\* sorted(S) for a set of industry names
RECURSIVE SortedIndustries(_)
SortedIndustries(S) ==
    IF S = {} THEN <<>>
    ELSE LET lo == CHOOSE x \in S : \A y \in S : IndustryRank(x) <= IndustryRank(y)
         IN  <<lo>> \o SortedIndustries(S \ {lo})

\* region_to_states and regions of generate()
regions == {state_to_region[st] : st \in DOMAIN state_to_region}
region_to_states(rg) == {st \in DOMAIN state_to_region : state_to_region[st] = rg}

\* best is None / best_dist is float("inf")
None == <<>>
Inf == [inf |-> TRUE, v |-> 0]
Finite(x) == [inf |-> FALSE, v |-> x]
\* the comparison turned round: an attempt farther from the target wins
DistGreater(d, bd) == bd.inf \/ d > bd.v

DistLess(d, bd) == bd.inf \/ d < bd.v

\* settings.py as shipped (population sizes scaled down)
DefaultSettings ==
    [NUM_REPS |-> NUM_REPS,
     NUM_OPPORTUNITIES |-> NUM_OPPORTUNITIES,
     OPPS_PER_ACCOUNT_MIN |-> OPPS_PER_ACCOUNT_MIN,
     OPPS_PER_ACCOUNT_MAX |-> OPPS_PER_ACCOUNT_MAX]

\* no call is being made on its own
\* the desktop application is not running
NoApp ==
    /\ app_state = None
    /\ run_tab = None
    /\ inbox_tab = None
    /\ timers = 0
    /\ now = 0
    /\ dialog = None

NoCall == args = None /\ ret = None /\ draws = 0

Init ==
    /\ NoApp
    /\ settings = DefaultSettings
    /\ NoCall
    /\ \E cfg \in VocabConfigs :
         /\ first_names = cfg.first_names
         /\ last_names = cfg.last_names
         /\ nouns = cfg.nouns
         /\ suffixes = cfg.suffixes
         /\ industries_vocab = cfg.industries_vocab
         /\ state_to_region = cfg.state_to_region
    /\ pc = "accounts"
    /\ err = "none"
    /\ accounts = <<>>
    /\ territories = <<>>
    /\ reps = <<>>
    /\ opp_counts = <<>>
    /\ total = 0
    /\ iters = 0
    /\ attempt = 0
    /\ best = None
    /\ best_dist = Inf
    /\ opportunities = <<>>

\* a raise leaves generate(): nothing is returned
Raise(e) == pc' = "raised" /\ err' = e

\* ---------------------------------------------------------------------
\* generate(), lines 208-236: regions check and the account loop
\* ---------------------------------------------------------------------
_build_account_name(noun, suffix) == <<noun, suffix>>
_build_rep_name(first, last) == <<first, last>>

NewAccount(acct_id, industry, devs, noun, suffix) ==
    [id |-> acct_id,
     name |-> _build_account_name(noun, suffix),
     numDevelopers |-> _num_developers(devs),
     state |-> "",
     industry |-> industry,
     inPipeline |-> FALSE,
     repId |-> 0,
     territoryId |-> 0]

GenAccounts ==
    /\ pc = "accounts"
    /\ IF regions = {}
       THEN Raise("NoRegions") /\ UNCHANGED accounts
       ELSE \E ind \in [1..NUM_ACCOUNTS -> Range(industries_vocab)],
               devs \in [1..NUM_ACCOUNTS -> 0..MaxDevs],
               nn \in [1..NUM_ACCOUNTS -> Range(nouns)],
               sf \in [1..NUM_ACCOUNTS -> Range(suffixes)] :
              /\ accounts' = [a \in 1..NUM_ACCOUNTS |->
                                NewAccount(a, ind[a], devs[a], nn[a], sf[a])]
              /\ pc' = "territories"
              /\ err' = err
    /\ UNCHANGED <<inputs, appvars, callvars, territories, reps, opp_counts, total, iters, attempt, best,
                   best_dist, opportunities>>

\* ---------------------------------------------------------------------
\* lines 241-248: territories from the industries in use
\* ---------------------------------------------------------------------
used_industries == SortedIndustries({accounts[a].industry : a \in 1..Len(accounts)})

\* territory ids numbered over the whole vocabulary order, not the industries in use
industry_to_territory_id_vocab(ind) == IndustryRank(ind)

industry_to_territory_id(ind) ==
    CHOOSE i \in 1..Len(used_industries) : used_industries[i] = ind

DeriveTerritories ==
    /\ pc = "territories"
    /\ territories' = [i \in 1..Len(used_industries) |->
                         [id |-> industry_to_territory_id(used_industries[i]),
                          name |-> <<used_industries[i], "Territory">>]]
    /\ accounts' = [a \in 1..Len(accounts) |->
                      [accounts[a] EXCEPT
                         !.territoryId = industry_to_territory_id(accounts[a].industry)]]
    /\ pc' = "reps"
    /\ UNCHANGED <<inputs, appvars, callvars, err, reps, opp_counts, total, iters, attempt, best, best_dist,
                   opportunities>>

\* ---------------------------------------------------------------------
\* lines 253-271: reps, round-robin over the shuffled territory ids
\* ---------------------------------------------------------------------
\* the orders rng.shuffle can leave a list of length n in
Shuffles(ids) ==
    {p \in [1..Len(ids) -> Range(ids)] : \A i, j \in 1..Len(ids) : i # j => p[i] # p[j]}

\* a rep list whose round-robin index never advances
NewRepFirstTerritory(rep_id, territory_ids, first, last) ==
    [id |-> rep_id,
     name |-> _build_rep_name(first, last),
     homeState |-> "",
     region |-> "",
     quota |-> 0,
     territoryId |-> territory_ids[1]]

NewRep(rep_id, territory_ids, first, last) ==
    [id |-> rep_id,
     name |-> _build_rep_name(first, last),
     homeState |-> "",
     region |-> "",
     quota |-> 0,
     territoryId |-> territory_ids[((rep_id - 1) % Len(territory_ids)) + 1]]

GenReps ==
    /\ pc = "reps"
    /\ \E territory_ids \in Shuffles([i \in 1..Len(territories) |-> territories[i].id]),
          fn \in [1..settings.NUM_REPS -> Range(first_names)],
          ln \in [1..settings.NUM_REPS -> Range(last_names)] :
         reps' = [r \in 1..settings.NUM_REPS |-> NewRep(r, territory_ids, fn[r], ln[r])]
    /\ pc' = "ownership"
    /\ UNCHANGED <<inputs, appvars, callvars, err, accounts, territories, opp_counts, total, iters, attempt, best,
                   best_dist, opportunities>>

\* a lookup that falls back on all reps for a territory without any
reps_by_territory_or_all(terr_id) ==
    IF \E r \in 1..Len(reps) : reps[r].territoryId = terr_id
    THEN {r \in 1..Len(reps) : reps[r].territoryId = terr_id}
    ELSE 1..Len(reps)

\* reps_by_territory[terr_id], as the ids of its reps
reps_by_territory(terr_id) == {r \in 1..Len(reps) : reps[r].territoryId = terr_id}

\* ---------------------------------------------------------------------
\* lines 276-281: account ownership within the matching territory
\* ---------------------------------------------------------------------
\* ownership drawn from all reps, whatever their territory
OwnerChoicesAnyRep(acct) == {reps[r].id : r \in 1..Len(reps)}

OwnerChoices(acct) == {reps[r].id : r \in reps_by_territory(acct.territoryId)}

AssignOwnership ==
    /\ pc = "ownership"
    /\ IF \E a \in 1..Len(accounts) : OwnerChoices(accounts[a]) = {}
       THEN Raise("NoRepsAvailable") /\ UNCHANGED accounts
       ELSE \E own \in [1..Len(accounts) -> 1..settings.NUM_REPS] :
              /\ \A a \in 1..Len(accounts) : own[a] \in OwnerChoices(accounts[a])
              /\ accounts' = [a \in 1..Len(accounts) |->
                                [accounts[a] EXCEPT !.repId = own[a]]]
              /\ pc' = "counts"
              /\ err' = err
    /\ UNCHANGED <<inputs, appvars, callvars, territories, reps, opp_counts, total, iters, attempt, best,
                   best_dist, opportunities>>

\* ---------------------------------------------------------------------
\* line 286 and _reconcile_opp_counts (lines 47-68)
\* ---------------------------------------------------------------------
SampleOppCounts ==
    /\ pc = "counts"
    /\ \E c \in [1..Len(accounts) -> RandintDraws(settings.OPPS_PER_ACCOUNT_MIN,
                                                   settings.OPPS_PER_ACCOUNT_MAX)] :
         /\ opp_counts' = c
         /\ total' = SumSeq(c)
    /\ iters' = 0
    /\ pc' = "reconcile"
    /\ UNCHANGED <<inputs, appvars, callvars, err, accounts, territories, reps, attempt, best, best_dist,
                   opportunities>>

\* an increment that is computed and dropped
IncrementDropped(counts, idx) == counts

\* counts[idx] += 1 / counts[idx] -= 1
Increment(counts, idx) == [counts EXCEPT ![idx] = counts[idx] + 1]

\* a decrement of two
DecrementTwo(counts, idx) == [counts EXCEPT ![idx] = counts[idx] - 2]

Decrement(counts, idx) == [counts EXCEPT ![idx] = counts[idx] - 1]

\* accounts at the upper end of the band still count as eligible
eligible_to_add_at_max(counts) ==
    {i \in 1..Len(counts) : counts[i] <= settings.OPPS_PER_ACCOUNT_MAX}

\* eligible = [i for i, c in enumerate(counts) if c < hi] / if c > lo
eligible_to_add(counts) ==
    {i \in 1..Len(counts) : counts[i] < settings.OPPS_PER_ACCOUNT_MAX}

\* accounts at the lower end of the band still count as eligible
eligible_to_remove_at_min(counts) ==
    {i \in 1..Len(counts) : counts[i] >= settings.OPPS_PER_ACCOUNT_MIN}

eligible_to_remove(counts) ==
    {i \in 1..Len(counts) : counts[i] > settings.OPPS_PER_ACCOUNT_MIN}

\* one iteration of "while total < target"
ReconcileAdd ==
    /\ pc = "reconcile"
    /\ total < settings.NUM_OPPORTUNITIES
    /\ LET eligible == eligible_to_add(opp_counts)
       IN  IF eligible = {}
           THEN Raise("CannotAdd") /\ UNCHANGED <<opp_counts, total, iters>>
           ELSE \E idx \in eligible :
                  /\ opp_counts' = Increment(opp_counts, idx)
                  /\ total' = total + 1
                  /\ iters' = iters + 1
                  /\ UNCHANGED <<pc, err>>
    /\ UNCHANGED <<inputs, appvars, callvars, accounts, territories, reps, attempt, best, best_dist,
                   opportunities>>

\* one iteration of "while total > target"
ReconcileRemove ==
    /\ pc = "reconcile"
    /\ ~(total < settings.NUM_OPPORTUNITIES)
    /\ total > settings.NUM_OPPORTUNITIES
    /\ LET eligible == eligible_to_remove(opp_counts)
       IN  IF eligible = {}
           THEN Raise("CannotRemove") /\ UNCHANGED <<opp_counts, total, iters>>
           ELSE \E idx \in eligible :
                  /\ opp_counts' = Decrement(opp_counts, idx)
                  /\ total' = total - 1
                  /\ iters' = iters + 1
                  /\ UNCHANGED <<pc, err>>
    /\ UNCHANGED <<inputs, appvars, callvars, accounts, territories, reps, attempt, best, best_dist,
                   opportunities>>

\* both loops are over: return counts; the locals of the call are gone
ReconcileReturn ==
    /\ pc = "reconcile"
    /\ ~(total < settings.NUM_OPPORTUNITIES)
    /\ ~(total > settings.NUM_OPPORTUNITIES)
    /\ pc' = "amounts"
    /\ total' = 0
    /\ iters' = 0
    /\ UNCHANGED <<inputs, appvars, callvars, err, accounts, territories, reps, opp_counts, attempt,
                   best, best_dist, opportunities>>

\* ---------------------------------------------------------------------
\* lines 293-317: amount generation with retries
\* ---------------------------------------------------------------------
\* the multiplier draws of one attempt: one per opportunity of each account
MultiplierDraws ==
    {us \in [1..Len(accounts) ->
               UNION {[1..n -> UniformDraws(AMOUNT_MULTIPLIER_MIN, AMOUNT_MULTIPLIER_MAX,
                                            MultiplierGrid)] :
                        n \in 0..Max2(OPPS_PER_ACCOUNT_MAX, NUM_OPPORTUNITIES)}] :
        \A a \in 1..Len(accounts) : Len(us[a]) = Max2(0, opp_counts[a])}

\* _generate_amounts_for_accounts (lines 93-124)
_generate_amounts_for_accounts(accts, counts, coverage, us) ==
    [a \in 1..Len(accts) |->
        IF counts[a] <= 0 THEN <<>>
        ELSE AccountAmounts(TamOf(accts[a]), coverage[a], us[a])]

\* the range test without its lower end
InRangeNoFloor(t) == t <= TOTAL_PIPELINE_MAX

InRange(t) == TOTAL_PIPELINE_MIN <= t /\ t <= TOTAL_PIPELINE_MAX

\* a loop that runs once more than its limit
retries_left_inclusive(n) == n <= AMOUNT_RETRY_LIMIT

\* range(AMOUNT_RETRY_LIMIT) has a value left after n passes
retries_left(n) == n < AMOUNT_RETRY_LIMIT

\* one pass of the body of "for _attempt in range(AMOUNT_RETRY_LIMIT)"
AmountAttempt ==
    /\ pc = "amounts"
    /\ retries_left(attempt)
    /\ \E coverage \in [1..Len(accounts) -> UniformDraws(COVERAGE_PCT_MIN, COVERAGE_PCT_MAX,
                                                    CoverageGrid)],
          us \in MultiplierDraws :
         LET per_acct_amounts ==
                 _try_global_scale(accounts,
                     _generate_amounts_for_accounts(accounts, opp_counts, coverage, us))
             t == GrandTotal(per_acct_amounts)
             dist == Abs(t - TOTAL_PIPELINE_TARGET)
         IN  /\ best' = IF InRange(t) \/ DistLess(dist, best_dist)
                        THEN per_acct_amounts ELSE best
             /\ best_dist' = IF DistLess(dist, best_dist) THEN Finite(dist) ELSE best_dist
             /\ total' = t
             /\ pc' = IF InRange(t) THEN "check" ELSE "amounts"
             /\ attempt' = attempt + 1
    /\ UNCHANGED <<inputs, appvars, callvars, err, accounts, territories, reps, opp_counts, iters,
                   opportunities>>

\* lines 310-317, after the loop broke or ran out
CheckBest ==
    /\ pc = "check" \/ (pc = "amounts" /\ ~retries_left(attempt))
    /\ IF best = None THEN Raise("NoAmounts") /\ total' = total
       ELSE /\ total' = GrandTotal(best)
            /\ IF ~InRange(GrandTotal(best)) THEN Raise("PipelineTargetUnreachable")
               ELSE pc' = "opps" /\ err' = err
    /\ UNCHANGED <<inputs, appvars, callvars, accounts, territories, reps, opp_counts, iters, attempt, best,
                   best_dist, opportunities>>

\* ---------------------------------------------------------------------
\* lines 322-350: opportunities, account by account
\* ---------------------------------------------------------------------
\* the (account position, i) pairs of the nested loops, from account a on
RECURSIVE OppSlots(_, _)
OppSlots(counts, a) ==
    IF a > Len(counts) THEN <<>>
    ELSE [i \in 1..Max2(0, counts[a]) |-> <<a, i>>] \o OppSlots(counts, a + 1)

\* an opportunity that takes its own id for the account id
NewOpportunityOwnId(opp_id, acct, amount, product) ==
    [id |-> opp_id,
     name |-> acct.name \o <<product>>,
     amount |-> amount,
     closeDate |-> NoDate,
     repId |-> acct.repId,
     accountId |-> opp_id]

NewOpportunity(opp_id, acct, amount, product) ==
    [id |-> opp_id,
     name |-> acct.name \o <<product>>,
     amount |-> amount,
     closeDate |-> NoDate,
     repId |-> acct.repId,
     accountId |-> acct.id]

BuildOpportunities ==
    /\ pc = "opps"
    /\ IF \E a \in 1..Len(accounts) : Len(best[accounts[a].id]) # opp_counts[a]
       THEN Raise("AmountCountMismatch") /\ UNCHANGED <<opportunities, accounts>>
       ELSE LET slots == OppSlots(opp_counts, 1)
            IN  \E product \in [1..Len(slots) -> Range(PRODUCTS)] :
                  /\ opportunities' =
                       [o \in 1..Len(slots) |->
                          NewOpportunity(o, accounts[slots[o][1]],
                                         best[accounts[slots[o][1]].id][slots[o][2]],
                                         product[o])]
                  /\ accounts' =
                       [a \in 1..Len(accounts) |->
                          [accounts[a] EXCEPT !.inPipeline =
                             \E o \in 1..Len(slots) :
                                opportunities'[o].accountId = accounts[a].id]]
                  /\ pc' = "dates"
                  /\ err' = err
    /\ UNCHANGED <<inputs, appvars, callvars, territories, reps, opp_counts, total, iters, attempt, best, best_dist>>

\* ---------------------------------------------------------------------
\* lines 355-365: close dates
\* ---------------------------------------------------------------------
recent_n == RoundScaled(NUM_OPPORTUNITIES, RECENT_CLOSE_PCT, 100)

\* the dates date_between can return for a window
WindowDates(w) == {date_between(w.start, off) : off \in DateOffsets(w.start, w.end)}

AssignCloseDates ==
    /\ pc = "dates"
    /\ IF recent_n > Len(opportunities)
       THEN Raise("SampleLargerThanPopulation") /\ UNCHANGED opportunities
       ELSE \E recent_indices \in SUBSET (0..(Len(opportunities) - 1)) :
              /\ Cardinality(recent_indices) = recent_n
              /\ \E dates \in [1..Len(opportunities) ->
                                 WindowDates(RECENT_CLOSE_WINDOW) \cup
                                 WindowDates(FUTURE_CLOSE_WINDOW)] :
                   /\ \A o \in 1..Len(opportunities) :
                        dates[o] \in IF (o - 1) \in recent_indices
                                     THEN WindowDates(RECENT_CLOSE_WINDOW)
                                     ELSE WindowDates(FUTURE_CLOSE_WINDOW)
                   /\ opportunities' = [o \in 1..Len(opportunities) |->
                                          [opportunities[o] EXCEPT !.closeDate = dates[o]]]
              /\ pc' = "regions"
              /\ err' = err
    /\ UNCHANGED <<inputs, appvars, callvars, accounts, territories, reps, opp_counts, total, iters, attempt, best,
                   best_dist>>

\* ---------------------------------------------------------------------
\* lines 370-386: regions and states
\* ---------------------------------------------------------------------
AssignRegions ==
    /\ pc = "regions"
    /\ \E territory_id_to_region \in [{territories[t].id : t \in 1..Len(territories)} -> regions] :
         IF \E r \in 1..Len(reps) :
               region_to_states(territory_id_to_region[reps[r].territoryId]) = {}
         THEN Raise("NoStates") /\ UNCHANGED <<reps, accounts>>
         ELSE \E home \in [1..Len(reps) -> DOMAIN state_to_region] :
                /\ \A r \in 1..Len(reps) :
                     home[r] \in region_to_states(territory_id_to_region[reps[r].territoryId])
                /\ reps' = [r \in 1..Len(reps) |->
                              [reps[r] EXCEPT
                                 !.region = territory_id_to_region[reps[r].territoryId],
                                 !.homeState = home[r]]]
                /\ accounts' = [a \in 1..Len(accounts) |->
                                  [accounts[a] EXCEPT !.state =
                                     LET rep == CHOOSE r \in 1..Len(reps) :
                                                   reps[r].id = accounts[a].repId
                                     IN  reps'[rep].homeState]]
                /\ pc' = "quotas"
                /\ err' = err
    /\ UNCHANGED <<inputs, appvars, callvars, territories, opp_counts, total, iters, attempt, best, best_dist,
                   opportunities>>

\* ---------------------------------------------------------------------
\* lines 391-407: quotas, then return
\* ---------------------------------------------------------------------
\* sum of the amounts of the opportunities of one account
AccountTotal(opps, acct_id) ==
    SumSeq([o \in 1..Len(opps) |->
              IF opps[o].accountId = acct_id THEN opps[o].amount ELSE 0])

territory_pipeline(terr_id) ==
    SumSeq([a \in 1..Len(accounts) |->
              IF accounts[a].territoryId = terr_id
              THEN AccountTotal(opportunities, accounts[a].id) ELSE 0])

\* round(terr_total / len(reps_in_terr) * multiplier), clamped
QuotaOf(terr_id) ==
    _clamp_int(RoundProduct(territory_pipeline(terr_id),
                            Cardinality(reps_by_territory(terr_id)),
                            QUOTA_MULTIPLIER_ON_TERRITORY_PIPELINE, 100),
               QUOTA_MIN, QUOTA_MAX)

AssignQuotas ==
    /\ pc = "quotas"
    /\ reps' = [r \in 1..Len(reps) |-> [reps[r] EXCEPT !.quota = QuotaOf(reps[r].territoryId)]]
    /\ pc' = "done"
    /\ UNCHANGED <<inputs, appvars, callvars, err, accounts, territories, opp_counts, total, iters, attempt, best,
                   best_dist, opportunities>>

Next ==
    \/ GenAccounts
    \/ DeriveTerritories
    \/ GenReps
    \/ AssignOwnership
    \/ SampleOppCounts
    \/ ReconcileAdd
    \/ ReconcileRemove
    \/ ReconcileReturn
    \/ AmountAttempt
    \/ CheckBest
    \/ BuildOpportunities
    \/ AssignCloseDates
    \/ AssignRegions
    \/ AssignQuotas

Spec == Init /\ [][Next]_vars

\* generate() has returned (reps, accounts, opportunities, territories)
Returned == pc = "done"

\* line 407: return reps, accounts, opportunities, territories
ReturnValue == <<reps, accounts, opportunities, territories>>

\* ---------------------------------------------------------------------
\* generate() up to the ownership assignment (lines 208-281) with
\* settings.NUM_REPS anywhere in 0..MaxReps, so that there can be fewer reps
\* than territories.  pc = "counts" is the rest of generate().
\* ---------------------------------------------------------------------
InitOwnership ==
    /\ NoApp
    /\ \E n \in 0..MaxReps : settings = [DefaultSettings EXCEPT !.NUM_REPS = n]
    /\ NoCall
    /\ \E cfg \in VocabConfigs :
         /\ first_names = cfg.first_names
         /\ last_names = cfg.last_names
         /\ nouns = cfg.nouns
         /\ suffixes = cfg.suffixes
         /\ industries_vocab = cfg.industries_vocab
         /\ state_to_region = cfg.state_to_region
    /\ pc = "accounts"
    /\ err = "none"
    /\ accounts = <<>>
    /\ territories = <<>>
    /\ reps = <<>>
    /\ opp_counts = <<>>
    /\ total = 0
    /\ iters = 0
    /\ attempt = 0
    /\ best = None
    /\ best_dist = Inf
    /\ opportunities = <<>>

NextOwnership ==
    \/ GenAccounts
    \/ DeriveTerritories
    \/ GenReps
    \/ AssignOwnership

SpecOwnership == InitOwnership /\ [][NextOwnership]_vars

\* ---------------------------------------------------------------------
\* _reconcile_opp_counts under any band and target: either entered from
\* line 286 of generate() (pc = "counts", the counts still to be drawn inside
\* the band) or called directly with any list of counts (pc = "reconcile",
\* line 51: total = sum(counts)).  pc = "amounts" is the call having returned.
\* ---------------------------------------------------------------------
\* the vocabulary of the first configuration, and no retry loop entered
Blank ==
    /\ LET cfg == CHOOSE c \in VocabConfigs : Len(c.industries_vocab) = 1
       IN  /\ first_names = cfg.first_names
           /\ last_names = cfg.last_names
           /\ nouns = cfg.nouns
           /\ suffixes = cfg.suffixes
           /\ industries_vocab = cfg.industries_vocab
           /\ state_to_region = cfg.state_to_region
    /\ err = "none"
    /\ iters = 0
    /\ attempt = 0
    /\ best = None
    /\ best_dist = Inf

Bands == {b \in (0..RecMaxBand) \X (0..RecMaxBand) : b[1] <= b[2]}

InitReconcile ==
    /\ NoApp
    /\ Blank
    /\ NoCall
    /\ territories = <<>>
    /\ reps = <<>>
    /\ opportunities = <<>>
    /\ \E t \in 0..RecMaxTarget, b \in Bands :
         settings = [DefaultSettings EXCEPT !.NUM_OPPORTUNITIES = t,
                                            !.OPPS_PER_ACCOUNT_MIN = b[1],
                                            !.OPPS_PER_ACCOUNT_MAX = b[2]]
    /\ accounts = [a \in 1..NUM_ACCOUNTS |->
                     NewAccount(a, industries_vocab[1], 1, nouns[1], suffixes[1])]
    /\ \/ pc = "counts" /\ opp_counts = <<>> /\ total = 0
       \/ /\ pc = "reconcile"
          /\ opp_counts \in UNION {[1..n -> 0..RecMaxCount] : n \in 0..NUM_ACCOUNTS}
          /\ total = SumSeq(opp_counts)

NextReconcile ==
    \/ SampleOppCounts
    \/ ReconcileAdd
    \/ ReconcileRemove
    \/ ReconcileReturn

SpecReconcile == InitReconcile /\ [][NextReconcile]_vars

\* the call keeps running: the interpreter executes the next iteration, the
\* raise or the return whenever there is one to execute
SpecReconcileFair == SpecReconcile /\ WF_vars(NextReconcile)

\* ---------------------------------------------------------------------
\* validate.py: validate(reps, accounts, opportunities, territories, ...)
\* Each V_ operator is one block of _assert calls, in the order of the
\* source; validate returns normally iff none of them raises.
\* ---------------------------------------------------------------------
\* the keyword arguments selftest.main() passes, taken from settings
Expected ==
    [reps |-> NUM_REPS,
     accounts |-> NUM_ACCOUNTS,
     opportunities |-> NUM_OPPORTUNITIES,
     total_min |-> TOTAL_PIPELINE_MIN,
     total_max |-> TOTAL_PIPELINE_MAX,
     recent_window |-> RECENT_CLOSE_WINDOW,
     future_window |-> FUTURE_CLOSE_WINDOW,
     recent_count |-> (NUM_OPPORTUNITIES * RECENT_CLOSE_PCT) \div 100,
     tam_per_developer |-> TAM_PER_DEVELOPER]

InWindow(dt, w) == DateLE(w.start, dt) /\ DateLE(dt, w.end)

\* len({x["id"]: x for x in xs}) == len(xs)
DistinctIds(xs) == \A i, j \in 1..Len(xs) : i # j => xs[i].id # xs[j].id

\* len({x.get("name"): x for x in xs}) == len(xs)
DistinctNames(xs) == \A i, j \in 1..Len(xs) : i # j => xs[i].name # xs[j].name

\* lines 36-44
V_Counts(r, a, o, e) ==
    Len(r) = e.reps /\ Len(a) = e.accounts /\ Len(o) = e.opportunities

\* lines 46-62
V_Ids(r, a, o, t) ==
    /\ \A i \in 1..Len(r) : r[i].id = i
    /\ \A i \in 1..Len(a) : a[i].id = i
    /\ \A i \in 1..Len(o) : o[i].id = i
    /\ \A i \in 1..Len(t) : t[i].id = i

\* lines 64-70
V_UniqueIds(r, a, t) == DistinctIds(r) /\ DistinctIds(a) /\ DistinctIds(t)

\* lines 72-80
V_UniqueNames(r, a, o, t) ==
    DistinctNames(r) /\ DistinctNames(a) /\ DistinctNames(o) /\ DistinctNames(t)

\* lines 83-98
V_AccountRelations(r, a, t) ==
    \A i \in 1..Len(a) :
        /\ \E j \in 1..Len(r) : r[j].id = a[i].repId
        /\ \E j \in 1..Len(t) : t[j].id = a[i].territoryId
        /\ \A j \in 1..Len(r) :
             r[j].id = a[i].repId =>
                r[j].territoryId = a[i].territoryId /\ a[i].state = r[j].homeState

\* lines 101-113
V_OppRelations(r, a, o) ==
    \A i \in 1..Len(o) :
        /\ \E j \in 1..Len(a) : a[j].id = o[i].accountId
        /\ \E j \in 1..Len(r) : r[j].id = o[i].repId
        /\ \A j \in 1..Len(a) : a[j].id = o[i].accountId => o[i].repId = a[j].repId
        /\ IsYmd(o[i].closeDate)
        /\ o[i].amount >= 0

\* lines 115-128
V_PipelineAndTam(a, o, e) ==
    \A i \in 1..Len(a) :
        /\ a[i].inPipeline = (\E j \in 1..Len(o) : o[j].accountId = a[i].id)
        /\ AccountTotal(o, a[i].id) <= e.tam_per_developer * a[i].numDevelopers

\* lines 131-148
V_CloseDates(o, e) ==
    /\ \A i \in 1..Len(o) :
         ~InWindow(o[i].closeDate, e.recent_window) => InWindow(o[i].closeDate, e.future_window)
    /\ Cardinality({i \in 1..Len(o) : InWindow(o[i].closeDate, e.recent_window)})
         = e.recent_count

\* lines 150-154
V_Total(o, e) ==
    LET t == SumSeq([i \in 1..Len(o) |-> o[i].amount])
    IN  e.total_min <= t /\ t <= e.total_max

\* lines 157-160
V_Reps(r) ==
    \A i \in 1..Len(r) : r[i].quota > 0 /\ r[i].homeState # "" /\ r[i].region # ""

validate(r, a, o, t, e) ==
    /\ V_Counts(r, a, o, e)
    /\ V_Ids(r, a, o, t)
    /\ V_UniqueIds(r, a, t)
    /\ V_UniqueNames(r, a, o, t)
    /\ V_AccountRelations(r, a, t)
    /\ V_OppRelations(r, a, o)
    /\ V_PipelineAndTam(a, o, e)
    /\ V_CloseDates(o, e)
    /\ V_Total(o, e)
    /\ V_Reps(r)

\* validate() without its duplicate-name block (lines 72-80)
FirstViolationNoNames(r, a, o, t, e) ==
    IF ~V_Counts(r, a, o, e) THEN "counts"
    ELSE IF ~V_Ids(r, a, o, t) THEN "ids"
    ELSE IF ~V_UniqueIds(r, a, t) THEN "duplicate ids"
    ELSE IF ~V_AccountRelations(r, a, t) THEN "account relations"
    ELSE IF ~V_OppRelations(r, a, o) THEN "opportunity relations"
    ELSE IF ~V_PipelineAndTam(a, o, e) THEN "pipeline and TAM"
    ELSE IF ~V_CloseDates(o, e) THEN "close dates"
    ELSE IF ~V_Total(o, e) THEN "total"
    ELSE IF ~V_Reps(r) THEN "reps"
    ELSE "ok"

\* the block of _assert calls that raises ValueError, the blocks being run in
\* the order of the source; "ok" when validate() returns
FirstViolation(r, a, o, t, e) ==
    IF ~V_Counts(r, a, o, e) THEN "counts"
    ELSE IF ~V_Ids(r, a, o, t) THEN "ids"
    ELSE IF ~V_UniqueIds(r, a, t) THEN "duplicate ids"
    ELSE IF ~V_UniqueNames(r, a, o, t) THEN "duplicate names"
    ELSE IF ~V_AccountRelations(r, a, t) THEN "account relations"
    ELSE IF ~V_OppRelations(r, a, o) THEN "opportunity relations"
    ELSE IF ~V_PipelineAndTam(a, o, e) THEN "pipeline and TAM"
    ELSE IF ~V_CloseDates(o, e) THEN "close dates"
    ELSE IF ~V_Total(o, e) THEN "total"
    ELSE IF ~V_Reps(r) THEN "reps"
    ELSE "ok"

\* ---------------------------------------------------------------------
\* validate() called on its own, as the tests call it: on a dataset that
\* passes every check, or on that dataset with up to two things changed
\* (a field, a whole record, a dropped record, an expectation).
\* ---------------------------------------------------------------------
\* a dataset of the expected sizes that passes validate(), with its expectations
GoodData ==
    LET devs == (TOTAL_PIPELINE_MAX \div TAM_PER_DEVELOPER) + 1
        rs == [i \in 1..NUM_REPS |->
                 [id |-> i,
                  name |-> <<ToString(i), "Lee">>,
                  homeState |-> "CA",
                  region |-> "West",
                  quota |-> QUOTA_MIN,
                  territoryId |-> ((i - 1) % 2) + 1]]
        as == [i \in 1..NUM_ACCOUNTS |->
                 [id |-> i,
                  name |-> <<ToString(i), "Inc">>,
                  numDevelopers |-> devs,
                  state |-> "CA",
                  industry |-> "Retail",
                  inPipeline |-> i <= NUM_OPPORTUNITIES,
                  repId |-> ((i - 1) % NUM_REPS) + 1,
                  territoryId |-> rs[((i - 1) % NUM_REPS) + 1].territoryId]]
        os == [i \in 1..NUM_OPPORTUNITIES |->
                 [id |-> i,
                  name |-> <<ToString(i), "Inc", "Devin">>,
                  amount |-> TOTAL_PIPELINE_TARGET \div NUM_OPPORTUNITIES,
                  closeDate |-> IF i <= Expected.recent_count
                                THEN RECENT_CLOSE_WINDOW.start
                                ELSE FUTURE_CLOSE_WINDOW.end,
                  repId |-> as[((i - 1) % NUM_ACCOUNTS) + 1].repId,
                  accountId |-> ((i - 1) % NUM_ACCOUNTS) + 1]]
        ts == <<[id |-> 1, name |-> <<"Mining", "Territory">>],
                [id |-> 2, name |-> <<"Retail", "Territory">>]>>
    IN  [reps |-> rs, accounts |-> as, opportunities |-> os, territories |-> ts,
         expected |-> Expected]

\* a date outside both close windows
OutsideDate == [y |-> 2030, m |-> 1, d |-> 1]

DropLast(xs) == IF xs = <<>> THEN xs ELSE SubSeq(xs, 1, Len(xs) - 1)

\* D itself, and D with one thing changed
Corrupted(D) ==
    LET R == 1..Len(D.reps)
        A == 1..Len(D.accounts)
        O == 1..Len(D.opportunities)
        T == 1..Len(D.territories)
    IN  {D}
        \cup {[D EXCEPT !.reps = DropLast(@)], [D EXCEPT !.accounts = DropLast(@)],
               [D EXCEPT !.opportunities = DropLast(@)], [D EXCEPT !.territories = DropLast(@)]}
        \cup {[D EXCEPT !.reps[j] = D.reps[i]] : i, j \in R}
        \cup {[D EXCEPT !.reps[i].id = v] : i \in R, v \in 0..(NUM_REPS + 1)}
        \cup {[D EXCEPT !.reps[i].name = D.reps[j].name] : i, j \in R}
        \cup {[D EXCEPT !.reps[i].territoryId = v] : i \in R, v \in 0..3}
        \cup {[D EXCEPT !.reps[i].homeState = v] : i \in R, v \in {"", "NY"}}
        \cup {[D EXCEPT !.reps[i].region = ""] : i \in R}
        \cup {[D EXCEPT !.reps[i].quota = 0] : i \in R}
        \cup {[D EXCEPT !.accounts[i].id = v] : i \in A, v \in 0..(NUM_ACCOUNTS + 1)}
        \cup {[D EXCEPT !.accounts[i].name = D.accounts[j].name] : i, j \in A}
        \cup {[D EXCEPT !.accounts[i].repId = v] : i \in A, v \in 0..(NUM_REPS + 1)}
        \cup {[D EXCEPT !.accounts[i].territoryId = v] : i \in A, v \in 0..3}
        \cup {[D EXCEPT !.accounts[i].state = "NY"] : i \in A}
        \cup {[D EXCEPT !.accounts[i].inPipeline = ~@] : i \in A}
        \cup {[D EXCEPT !.accounts[i].numDevelopers = 0] : i \in A}
        \cup {[D EXCEPT !.opportunities[i].id = v] : i \in O, v \in 0..(NUM_OPPORTUNITIES + 1)}
        \cup {[D EXCEPT !.opportunities[i].name = D.opportunities[j].name] : i, j \in O}
        \cup {[D EXCEPT !.opportunities[i].accountId = v] : i \in O, v \in 0..(NUM_ACCOUNTS + 1)}
        \cup {[D EXCEPT !.opportunities[i].repId = v] : i \in O, v \in 0..(NUM_REPS + 1)}
        \cup {[D EXCEPT !.opportunities[i].amount = v] :
                 i \in O, v \in {-1, 0, TOTAL_PIPELINE_MAX + 1}}
        \cup {[D EXCEPT !.opportunities[i].closeDate = v] :
                 i \in O, v \in {NoDate, OutsideDate, RECENT_CLOSE_WINDOW.end,
                                  FUTURE_CLOSE_WINDOW.start}}
        \cup {[D EXCEPT !.territories[i].id = v] : i \in T, v \in 0..3}
        \cup {[D EXCEPT !.territories[i].name = D.territories[j].name] : i, j \in T}
        \cup {[D EXCEPT !.expected.reps = @ + 1], [D EXCEPT !.expected.accounts = @ + 1],
               [D EXCEPT !.expected.opportunities = @ + 1],
               [D EXCEPT !.expected.recent_count = @ + 1],
               [D EXCEPT !.expected.total_min = TOTAL_PIPELINE_MAX + 1],
               [D EXCEPT !.expected.total_max = TOTAL_PIPELINE_MIN - 1],
               [D EXCEPT !.expected.tam_per_developer = 1]}

InitValidate ==
    /\ NoApp
    /\ Blank
    /\ settings = DefaultSettings
    /\ \E D1 \in Corrupted(GoodData) : \E D2 \in Corrupted(D1) :
         /\ reps = D2.reps
         /\ accounts = D2.accounts
         /\ opportunities = D2.opportunities
         /\ territories = D2.territories
         /\ args = D2.expected
    /\ ret = None
    /\ draws = 0
    /\ pc = "validate"
    /\ opp_counts = <<>>
    /\ total = 0

\* the call: it returns None, or a ValueError leaves it
Validate ==
    /\ pc = "validate"
    /\ ret' = FirstViolation(reps, accounts, opportunities, territories, args)
    /\ pc' = IF ret' = "ok" THEN "validated" ELSE "raised"
    /\ err' = IF ret' = "ok" THEN err ELSE "ValueError"
    /\ UNCHANGED <<inputs, appvars, settings, args, draws, accounts, territories, reps, opp_counts,
                   total, iters, attempt, best, best_dist, opportunities>>

NextValidate == Validate

SpecValidate == InitValidate /\ [][NextValidate]_vars

\* ---------------------------------------------------------------------
\* Rng.date_between(start_ymd, end_ymd) called on its own (rng.py, lines
\* 37-45).  draws counts the calls made on the random source self._r since
\* the call was entered; pc = "randint" is line 43 about to run.
\* ---------------------------------------------------------------------
\* the ends tried: around the end of February in a leap and a common year,
\* around a new year, and the two ends of 2026
CallDates ==
    {[y |-> 2024, m |-> 2, d |-> 28], [y |-> 2024, m |-> 2, d |-> 29],
     [y |-> 2024, m |-> 3, d |-> 1], [y |-> 2025, m |-> 2, d |-> 28],
     [y |-> 2025, m |-> 3, d |-> 1], [y |-> 2025, m |-> 12, d |-> 31],
     [y |-> 2026, m |-> 1, d |-> 1], [y |-> 2026, m |-> 1, d |-> 15],
     [y |-> 2026, m |-> 12, d |-> 31]}

InitDateBetween ==
    /\ NoApp
    /\ Blank
    /\ settings = DefaultSettings
    /\ \E s \in CallDates, e \in CallDates : args = [start |-> s, end |-> e]
    /\ ret = None
    /\ draws = 0
    /\ pc = "date_between"
    /\ accounts = <<>>
    /\ territories = <<>>
    /\ reps = <<>>
    /\ opportunities = <<>>
    /\ opp_counts = <<>>
    /\ total = 0

\* lines 38-42: parse both ends, refuse a window that ends before it starts
DateBetweenCheck ==
    /\ pc = "date_between"
    /\ IF ToOrdinal(args.end) < ToOrdinal(args.start)
       THEN Raise("InvalidDateWindow")
       ELSE pc' = "randint" /\ err' = err
    /\ UNCHANGED <<inputs, appvars, callvars, accounts, territories, reps, opp_counts, total, iters,
                   attempt, best, best_dist, opportunities>>

\* lines 43-45: one draw, and the date that many days after start
DateBetweenDraw ==
    /\ pc = "randint"
    /\ \E offset \in DateOffsets(args.start, args.end) :
         ret' = date_between(args.start, offset)
    /\ draws' = draws + 1
    /\ pc' = "date"
    /\ UNCHANGED <<inputs, appvars, settings, args, err, accounts, territories, reps, opp_counts,
                   total, iters, attempt, best, best_dist, opportunities>>

NextDateBetween ==
    \/ DateBetweenCheck
    \/ DateBetweenDraw

SpecDateBetween == InitDateBetween /\ [][NextDateBetween]_vars

\* ---------------------------------------------------------------------
\* io.py: parse_state_region_mapping(obj) called on its own (lines 41-65).
\* A decoded JSON value is a record: t is its Python type, s its text when
\* it is a str, n its value when it is an int, items its entries when it is
\* a list (k = JNull) or a dict (k the key), in order.
\* ---------------------------------------------------------------------
JNull == [t |-> "none", s |-> "", n |-> 0, items |-> <<>>]
JStr(x) == [t |-> "str", s |-> x, n |-> 0, items |-> <<>>]
JInt(x) == [t |-> "int", s |-> "", n |-> x, items |-> <<>>]
JList(xs) == [t |-> "list", s |-> "", n |-> 0,
              items |-> [i \in 1..Len(xs) |-> [k |-> JNull, val |-> xs[i]]]]
JDict(kvs) == [t |-> "dict", s |-> "", n |-> 0,
               items |-> [i \in 1..Len(kvs) |-> [k |-> kvs[i][1], val |-> kvs[i][2]]]]

\* the longest 'states' list tried
MaxEntries == 2

\* the entries a 'states' list is made of: dicts with 'state' and 'region'
\* present or not, a str or not, and an entry that is no dict
EntryFields(key, texts) ==
    {<<>>} \cup {<<<<JStr(key), v>>>> : v \in {JStr(x) : x \in texts} \cup {JInt(123)}}

ListEntries ==
    {JDict(st \o rg) : st \in EntryFields("state", {"CA", "NY"}),
                       rg \in EntryFields("region", {"West", "East"})}
    \cup {JStr("bad entry")}

StatesLists == UNION {[1..n -> ListEntries] : n \in 0..MaxEntries}

\* the objects the function is called with
ParseInputs ==
    {JList(<<JInt(1), JInt(2), JInt(3)>>), JStr("CA"), JInt(123), JNull, JDict(<<>>)}
    \cup {JDict(<<<<JStr("CA"), v1>>, <<JStr("NY"), v2>>>>) :
            v1 \in {JStr("West"), JInt(123)}, v2 \in {JStr("West"), JStr("East"), JNull}}
    \cup {JDict(<<<<k, JStr("West")>>>>) : k \in {JStr("CA"), JStr("states"), JInt(1)}}
    \cup {JDict(<<<<JStr("states"), JList(l)>>>>) : l \in StatesLists}
    \cup {JDict(<<<<JStr("CA"), JStr("West")>>, <<JStr("states"), JList(l)>>>>) :
            l \in StatesLists}
    \cup {JDict(<<<<JStr("states"), JDict(<<<<JStr("state"), JStr("CA")>>,
                                             <<JStr("region"), JStr("West")>>>>)>>>>)}

\* d.get(key): the value under the key, None when the key is absent
DictGet(d, key) ==
    IF \E i \in 1..Len(d.items) : d.items[i].k = JStr(key)
    THEN d.items[CHOOSE i \in 1..Len(d.items) : d.items[i].k = JStr(key)].val
    ELSE JNull

EmptyMapping == [x \in {} |-> ""]

\* mapping[st] = rg
MapSet(mapping, st, rg) ==
    [x \in DOMAIN mapping \cup {st} |-> IF x = st THEN rg ELSE mapping[x]]

\* the loop body without the isinstance test of the region: the entry is
\* taken with whatever text the region carries
AddEntryAnyRegion(mapping, entry) ==
    IF entry.t # "dict" THEN mapping
    ELSE LET st == DictGet(entry, "state")
             rg == DictGet(entry, "region")
         IN  IF st.t = "str" THEN MapSet(mapping, st.s, rg.s) ELSE mapping

\* lines 52-57: one pass of "for entry in states"
AddEntry(mapping, entry) ==
    IF entry.t # "dict" THEN mapping
    ELSE LET st == DictGet(entry, "state")
             rg == DictGet(entry, "region")
         IN  IF st.t = "str" /\ rg.t = "str" THEN MapSet(mapping, st.s, rg.s) ELSE mapping

\* lines 50-57: the mapping after the entries from position i on
RECURSIVE CollectStates(_, _, _)
CollectStates(states, i, mapping) ==
    IF i > Len(states.items) THEN mapping
    ELSE CollectStates(states, i + 1, AddEntry(mapping, states.items[i].val))

\* line 44: every key and every value is a str
AllStr(obj) ==
    \A i \in 1..Len(obj.items) : obj.items[i].k.t = "str" /\ obj.items[i].val.t = "str"

\* the mapping returned, or raised when line 61 is reached
parse_state_region_mapping(obj) ==
    IF obj.t = "dict" /\ AllStr(obj)
    THEN [raised |-> FALSE,
          mapping |-> [x \in {obj.items[i].k.s : i \in 1..Len(obj.items)} |->
                         obj.items[CHOOSE i \in 1..Len(obj.items) :
                                      obj.items[i].k.s = x].val.s]]
    ELSE IF obj.t = "dict" /\ DictGet(obj, "states").t = "list"
              /\ CollectStates(DictGet(obj, "states"), 1, EmptyMapping) # EmptyMapping
    THEN [raised |-> FALSE,
          mapping |-> CollectStates(DictGet(obj, "states"), 1, EmptyMapping)]
    ELSE [raised |-> TRUE, mapping |-> EmptyMapping]

\* nothing of a dataset is held
NoDataset ==
    /\ accounts = <<>>
    /\ territories = <<>>
    /\ reps = <<>>
    /\ opportunities = <<>>
    /\ opp_counts = <<>>
    /\ total = 0

InitParse ==
    /\ NoApp
    /\ Blank
    /\ NoDataset
    /\ settings = DefaultSettings
    /\ args \in ParseInputs
    /\ ret = None
    /\ draws = 0
    /\ pc = "parse"

\* the call: it returns the mapping, or a ValueError leaves it
ParseMapping ==
    /\ pc = "parse"
    /\ LET out == parse_state_region_mapping(args)
       IN  IF out.raised
           THEN Raise("InvalidRegionMapping") /\ ret' = ret
           ELSE ret' = out.mapping /\ pc' = "parsed" /\ err' = err
    /\ UNCHANGED <<inputs, appvars, settings, args, draws, accounts, territories, reps, opp_counts,
                   total, iters, attempt, best, best_dist, opportunities>>

NextParse == ParseMapping

SpecParse == InitParse /\ [][NextParse]_vars

\* ---------------------------------------------------------------------
\* _enforce_tam_int(amounts, tam) called on its own (generate.py, lines
\* 71-90) with any list of non-negative amounts and any tam >= 0.  args holds
\* the caller's list, which the call can only change by assigning into it.
\* ---------------------------------------------------------------------
InitEnforce ==
    /\ NoApp
    /\ Blank
    /\ NoDataset
    /\ settings = DefaultSettings
    /\ \E amounts \in UNION {[1..n -> 0..EnforceMaxAmount] : n \in 0..EnforceMaxLen},
          tam \in 0..EnforceMaxTam :
         args = [amounts |-> amounts, tam |-> tam]
    /\ ret = None
    /\ draws = 0
    /\ pc = "enforce"

\* the call: scaled is a new list, nothing is assigned into amounts
EnforceTam ==
    /\ pc = "enforce"
    /\ ret' = _enforce_tam_int(args.amounts, args.tam)
    /\ pc' = "enforced"
    /\ UNCHANGED <<inputs, appvars, settings, args, draws, err, accounts, territories, reps,
                   opp_counts, total, iters, attempt, best, best_dist, opportunities>>

NextEnforce == EnforceTam

SpecEnforce == InitEnforce /\ [][NextEnforce]_vars

\* ---------------------------------------------------------------------
\* _try_global_scale(accounts, opp_amounts_by_account) called on its own
\* (generate.py, lines 127-180): any number of developers per account and
\* any amounts, within an account's TAM or not.
\* ---------------------------------------------------------------------
ScaleAmounts == {ScaleUnit * j : j \in 0..ScaleSteps}

InitScale ==
    /\ NoApp
    /\ Blank
    /\ settings = DefaultSettings
    /\ \E devs \in [1..NUM_ACCOUNTS -> 1..MaxDevs] :
         accounts = [a \in 1..NUM_ACCOUNTS |->
                       NewAccount(a, industries_vocab[1], devs[a], nouns[1], suffixes[1])]
    /\ args \in [1..NUM_ACCOUNTS ->
                   UNION {[1..n -> ScaleAmounts] : n \in 0..OPPS_PER_ACCOUNT_MAX}]
    /\ ret = None
    /\ draws = 0
    /\ pc = "scale"
    /\ territories = <<>>
    /\ reps = <<>>
    /\ opportunities = <<>>
    /\ opp_counts = <<>>
    /\ total = 0

GlobalScale ==
    /\ pc = "scale"
    /\ ret' = _try_global_scale(accounts, args)
    /\ pc' = "scaled"
    /\ UNCHANGED <<inputs, appvars, settings, args, draws, err, accounts, territories, reps,
                   opp_counts, total, iters, attempt, best, best_dist, opportunities>>

NextScale == GlobalScale

SpecScale == InitScale /\ [][NextScale]_vars

\* ---------------------------------------------------------------------
\* app/main_window.py: the tabs of MainWindow on the AppState they share.
\* Every action is one slot or callback run by the Qt event loop, which runs
\* them one at a time; a slot that waits in a modal question is two actions,
\* the event loop of the dialog delivering the timers in between.
\* ---------------------------------------------------------------------
\* no run is started once the list holds this many runs; most rule tasks
\* _finish_run builds
MaxRuns == 4
MaxTasks == 2

\* loaded_data_path when no dataset is loaded (None)
NoPath == ""

\* the models.Issue object _result_to_issue builds (lines 72-88); class is the
\* Python class of the value, "Issue" or "dict"
_result_to_issue ==
    [class |-> "Issue", status |-> "Open", is_unread |-> TRUE, snoozed_until |-> None]

Run(run_id, issues) == [run_id |-> run_id, issues_count |-> Len(issues), issues |-> issues]

\* an issue dict of run.json that has a status and neither is_unread nor
\* snoozed_until: Issue(...) of state.py lines 160-177
StoredIssue(status) ==
    [class |-> "Issue", status |-> status, is_unread |-> TRUE, snoozed_until |-> None]

\* what run.json may hold: the runs (run_id, issues_count, issues) and
\* selectedRun, <<>> for null and <<n>> for the number n; a run_id of <<>> is
\* one on which int() raises (null, or a text such as "x").  A missing file
\* leaves the state as the payload without runs and without selectedRun does.
StoredRunStates ==
    LET two == <<StoredIssue("Open"), StoredIssue("Resolved")>>
        run1 == [run_id |-> <<1>>, issues_count |-> 2, issues |-> two]
        run3 == [run_id |-> <<3>>, issues_count |-> 0, issues |-> <<>>]
        below == [run_id |-> <<0 - 1>>, issues_count |-> 0, issues |-> <<>>]
        null == [run_id |-> None, issues_count |-> 0, issues |-> <<>>]
    IN  {[runs |-> <<>>, selectedRun |-> None],
         [runs |-> <<>>, selectedRun |-> <<5>>],
         [runs |-> <<run1>>, selectedRun |-> <<1>>],
         [runs |-> <<run3, run1>>, selectedRun |-> <<7>>],
         [runs |-> <<below>>, selectedRun |-> None],
         [runs |-> <<null, run1>>, selectedRun |-> <<1>>],
         [runs |-> <<run1, null>>, selectedRun |-> <<1>>],
         [runs |-> <<below, null, run3>>, selectedRun |-> None],
         [runs |-> <<run3, run1, null>>, selectedRun |-> <<3>>]}

\* max(r.run_id for r in runs), of a list that is not empty
RECURSIVE MaxRunId(_)
MaxRunId(runs) ==
    IF Len(runs) = 1 THEN runs[1].run_id
    ELSE Max2(runs[1].run_id, MaxRunId(Tail(runs)))

\* lines 200-202
next_id(runs) == IF runs = <<>> THEN 1 ELSE MaxRunId(runs) + 1

\* the first run of the list with the run_id, <<>> when there is none
\* (state.py lines 197-201)
RunWithId(runs, id) ==
    LET hits == {i \in 1..Len(runs) : runs[i].run_id = id}
    IN  IF hits = {} THEN None
        ELSE <<runs[CHOOSE i \in hits : \A j \in hits : i <= j]>>

\* load_run_state_from_disk (state.py lines 135-214) on a payload: the runs,
\* the selected run id and the issues of the selected run.  The loop of lines
\* 150-188 appends Run after Run; at the first entry on which int() raises
\* the call raises, with the runs before that entry in the list, no issues
\* (line 147) and the selected_run_id of AppState() (line 53).
load_run_state_from_disk(payload) ==
    LET raising == {i \in 1..Len(payload.runs) : payload.runs[i].run_id = None}
        read == IF raising = {} THEN Len(payload.runs)
                ELSE (CHOOSE i \in raising : \A j \in raising : i <= j) - 1
        runs == [i \in 1..read |-> [run_id |-> payload.runs[i].run_id[1],
                                    issues_count |-> payload.runs[i].issues_count,
                                    issues |-> payload.runs[i].issues]]
        stored == IF payload.selectedRun = None THEN None
                  ELSE RunWithId(runs, payload.selectedRun[1])
        selected_run_obj == IF stored # None THEN stored
                            ELSE IF runs # <<>> THEN RunWithId(runs, MaxRunId(runs))
                            ELSE None
    IN  IF raising # {}
        THEN [raised |-> TRUE, runs |-> runs, selected_run_id |-> None, issues |-> <<>>]
        ELSE [raised |-> FALSE,
              runs |-> runs,
              selected_run_id |-> IF selected_run_obj # None
                                  THEN <<selected_run_obj[1].run_id>>
                                  ELSE payload.selectedRun,
              issues |-> IF selected_run_obj # None THEN selected_run_obj[1].issues ELSE <<>>]

\* the paths a file dialog can return; NoPath when it is cancelled
DialogPaths == {NoPath, "data.json", "other.json"}

\* the generator is not running while the application is
NoGenerate ==
    /\ Blank
    /\ NoCall
    /\ NoDataset
    /\ settings = DefaultSettings
    /\ pc = "app"

\* the issue indexes of the rows InboxTab._rebuild_model (lines 207-236)
\* leaves in the table: it reads every issue with .get and raises
\* AttributeError at the first one that is not a dict
TableRows(issues) ==
    LET others == {i \in 1..Len(issues) : issues[i].class # "dict"}
    IN  IF others = {} THEN 1..Len(issues)
        ELSE 1..((CHOOSE i \in others : \A j \in others : i <= j) - 1)

\* MainWindow.__init__ (main_window.py lines 25-55): AppState(), the tabs,
\* _load_run_state_on_startup and _load_data_on_startup.  After a load that
\* returns, _load_run_state_on_startup calls PreviousRunsTab._rebuild_model
\* (line 93), which subscripts the first Run of the list and raises TypeError
\* (previous_runs_tab.py line 59): no window exists then unless the list of
\* runs read is empty.  A load that raises is caught (lines 77-86) and line 93
\* is not reached: the window exists, on the runs read before the raise.
\* selected_run_id is <<>> for None and <<n>> for n; dialog is <<>>, or
\* <<path>> while the question of _on_generate is open; in_as_completed is
\* set while _finish_run waits for a rule task that does not return.
InitRunTab ==
    /\ NoGenerate
    /\ \E path \in {NoPath, "data.json"}, output \in {NoPath, "data.json"},
          payload \in StoredRunStates :
         LET loaded == load_run_state_from_disk(payload)
         IN  /\ loaded.raised \/ loaded.runs = <<>>
             /\ app_state = [loaded_data_path |-> path,
                             output_data_path |-> output,
                             runs |-> loaded.runs,
                             issues |-> loaded.issues,
                             selected_run_id |-> loaded.selected_run_id]
    /\ run_tab = [_run_in_progress |-> FALSE,
                  run_button_enabled |-> TRUE,
                  _auto_timer_active |-> FALSE,
                  in_as_completed |-> FALSE]
    /\ inbox_tab = None
    /\ timers = 0
    /\ now = 0
    /\ dialog = None

\* _on_run_clicked (lines 179-192)
_on_run_clicked ==
    IF run_tab._run_in_progress THEN UNCHANGED <<run_tab, timers>>
    ELSE IF app_state.loaded_data_path = NoPath THEN UNCHANGED <<run_tab, timers>>
    ELSE /\ run_tab' = [run_tab EXCEPT !._run_in_progress = TRUE,
                                       !.run_button_enabled = FALSE]
         /\ timers' = timers + 1

generate_vars == <<pc, err, accounts, territories, reps, opp_counts, total, iters, attempt, best,
               best_dist, opportunities>>

\* the Run button, which emits clicked only while it is enabled
RunButtonClicked ==
    /\ pc = "app"
    /\ run_tab # None
    /\ ~run_tab.in_as_completed
    /\ dialog = None
    /\ run_tab.run_button_enabled
    /\ Len(app_state.runs) < MaxRuns
    /\ _on_run_clicked
    /\ UNCHANGED <<inputs, callvars, generate_vars, app_state, inbox_tab, now, dialog>>

\* _on_auto_run_toggled (lines 147-160)
AutoRunToggled ==
    /\ pc = "app"
    /\ run_tab # None
    /\ ~run_tab.in_as_completed
    /\ dialog = None
    /\ \E checked \in BOOLEAN :
         IF ~checked THEN run_tab' = [run_tab EXCEPT !._auto_timer_active = FALSE]
         ELSE IF app_state.loaded_data_path = NoPath THEN run_tab' = run_tab
         ELSE run_tab' = [run_tab EXCEPT !._auto_timer_active = TRUE]
    /\ UNCHANGED <<inputs, callvars, generate_vars, app_state, inbox_tab, timers, now, dialog>>

\* _on_auto_timer_timeout (lines 168-177)
AutoTimerTimeout ==
    /\ pc = "app"
    /\ run_tab # None
    /\ ~run_tab.in_as_completed
    /\ run_tab._auto_timer_active
    /\ Len(app_state.runs) < MaxRuns
    /\ IF run_tab._run_in_progress THEN UNCHANGED <<run_tab, timers>>
       ELSE IF app_state.loaded_data_path = NoPath
       THEN /\ run_tab' = [run_tab EXCEPT !._auto_timer_active = FALSE]
            /\ timers' = timers
       ELSE _on_run_clicked
    /\ UNCHANGED <<inputs, callvars, generate_vars, app_state, inbox_tab, now, dialog>>

\* what the rule tasks of one run do: each returns None, returns a result,
\* raises, or does not return
TaskOutcomes == UNION {[1..n -> {"none", "result", "raise", "hang"}] : n \in 0..MaxTasks}

IssuesOf(outcomes) ==
    LET hits == SelectSeq(outcomes, LAMBDA o : o = "result")
    IN  [i \in 1..Len(hits) |-> _result_to_issue]

\* _finish_run (lines 194-271), the single-shot callback.  It enables the
\* button (line 198) and waits for the tasks in as_completed (line 242); the
\* executor, when its with block is left, waits for them too.  With a task
\* that does not return the callback never returns, and the event loop that
\* called it runs no other slot.  future.result() re-raises what a rule task
\* raised and the handler raises it on (lines 243-247): nothing after the loop
\* is executed then.  issuesChanged (line 253) runs InboxTab._rebuild_model,
\* which empties the table and with it the selection, and fills it as far as
\* it gets.
FinishRun ==
    /\ pc = "app"
    /\ run_tab # None
    /\ ~run_tab.in_as_completed
    /\ timers > 0
    /\ timers' = timers - 1
    /\ \E outcomes \in TaskOutcomes :
         IF \E t \in 1..Len(outcomes) : outcomes[t] = "hang"
         THEN /\ run_tab' = [run_tab EXCEPT !.run_button_enabled = TRUE,
                                            !.in_as_completed = TRUE]
              /\ app_state' = app_state
              /\ inbox_tab' = inbox_tab
         ELSE IF \E t \in 1..Len(outcomes) : outcomes[t] = "raise"
         THEN /\ run_tab' = [run_tab EXCEPT !.run_button_enabled = TRUE]
              /\ app_state' = app_state
              /\ inbox_tab' = inbox_tab
         ELSE LET issues == IssuesOf(outcomes)
                  id == next_id(app_state.runs)
              IN  /\ app_state' = [app_state EXCEPT !.issues = issues,
                                                    !.selected_run_id = <<id>>,
                                                    !.runs = Append(@, Run(id, issues))]
                  /\ run_tab' = [run_tab EXCEPT !.run_button_enabled = TRUE,
                                                !._run_in_progress = FALSE]
                  /\ inbox_tab' = IF inbox_tab = None THEN None
                                  ELSE [rows |-> TableRows(issues), selected |-> 0]
    /\ UNCHANGED <<inputs, callvars, generate_vars, now, dialog>>

\* DataGeneratorTab._on_select_output (data_generator_tab.py lines 87-98)
SelectOutputClicked ==
    /\ pc = "app"
    /\ run_tab # None
    /\ ~run_tab.in_as_completed
    /\ dialog = None
    /\ \E path \in DialogPaths :
         IF path = NoPath THEN app_state' = app_state
         ELSE app_state' = [app_state EXCEPT !.output_data_path = path]
    /\ UNCHANGED <<inputs, callvars, generate_vars, run_tab, inbox_tab, timers, now, dialog>>

\* DataGeneratorTab._on_load_existing (lines 100-110)
LoadExistingClicked ==
    /\ pc = "app"
    /\ run_tab # None
    /\ ~run_tab.in_as_completed
    /\ dialog = None
    /\ \E path \in DialogPaths :
         IF path = NoPath THEN app_state' = app_state
         ELSE app_state' = [app_state EXCEPT !.loaded_data_path = path]
    /\ UNCHANGED <<inputs, callvars, generate_vars, run_tab, inbox_tab, timers, now, dialog>>

\* DataGeneratorTab._on_generate (lines 112-143) as far as the question of
\* line 119: without an output path it returns; when the output file exists
\* it asks, and output_path waits in the modal dialog; otherwise generate() or
\* the writing of the file may raise, or the written file is the loaded
\* dataset
GenerateClicked ==
    /\ pc = "app"
    /\ run_tab # None
    /\ ~run_tab.in_as_completed
    /\ dialog = None
    /\ IF app_state.output_data_path = NoPath THEN UNCHANGED <<app_state, dialog>>
       ELSE \E exists \in BOOLEAN :
              IF exists
              THEN /\ dialog' = <<app_state.output_data_path>>
                   /\ app_state' = app_state
              ELSE /\ dialog' = dialog
                   /\ \E outcome \in {"raised", "written"} :
                        app_state' = IF outcome = "written"
                                     THEN [app_state EXCEPT
                                             !.loaded_data_path = app_state.output_data_path]
                                     ELSE app_state
    /\ UNCHANGED <<inputs, callvars, generate_vars, run_tab, inbox_tab, timers, now>>

\* _on_generate from the answer on (lines 126-143): the question is declined,
\* generate() or the writing raises, or the written file is the loaded dataset
GenerateAnswered ==
    /\ pc = "app"
    /\ run_tab # None
    /\ ~run_tab.in_as_completed
    /\ dialog # None
    /\ dialog' = None
    /\ \E outcome \in {"declined", "raised", "written"} :
         app_state' = IF outcome = "written"
                      THEN [app_state EXCEPT !.loaded_data_path = dialog[1]]
                      ELSE app_state
    /\ UNCHANGED <<inputs, callvars, generate_vars, run_tab, inbox_tab, timers, now>>

\* PreviousRunsTab._on_load_clicked is no action: its button is enabled by a
\* selected row only, and _rebuild_model (previous_runs_tab.py lines 55-69)
\* raises at the first Run before it appends a row.
NextRunTab ==
    \/ RunButtonClicked
    \/ AutoRunToggled
    \/ AutoTimerTimeout
    \/ FinishRun
    \/ SelectOutputClicked
    \/ LoadExistingClicked
    \/ GenerateClicked
    \/ GenerateAnswered

SpecRunTab == InitRunTab /\ [][NextRunTab]_vars

\* the event loop, while it runs, delivers a single-shot timer that is due;
\* FinishRun is not enabled while a callback keeps the event loop, and that
\* the rule tasks return is not assumed
SpecRunTabFair == SpecRunTab /\ WF_vars(FinishRun)

\* ---------------------------------------------------------------------
\* app/tabs/inbox_tab.py: InboxTab.  Its handlers read and write the issues
\* as dicts; snoozed_until is <<>> (None) for the key being absent and <<t>>
\* for the time t.  inbox_tab.rows holds the issue indexes of the rows of the
\* table, inbox_tab.selected the issue index of the selected row, 0 for no
\* selection.
\* ---------------------------------------------------------------------
NumIssues == 2
MaxNow == 2
\* QDateTime.currentDateTime().addDays(1), line 390
SnoozeDays == 1

\* InboxTab(state) (lines 63-205) beside a RunTab, on a state whose issues
\* are dicts that are Open and have no snoozed_until; with no issue this is
\* the state MainWindow.__init__ leaves.  The application itself puts only
\* Issue objects in state.issues (_finish_run), of which the table shows none.
InitInbox ==
    /\ NoGenerate
    /\ \E n \in 0..NumIssues : \E unread \in [1..n -> BOOLEAN] :
         /\ app_state = [loaded_data_path |-> "data.json",
                         output_data_path |-> NoPath,
                         runs |-> <<>>,
                         issues |-> [i \in 1..n |->
                                       [class |-> "dict", status |-> "Open",
                                        is_unread |-> unread[i], snoozed_until |-> None]],
                         selected_run_id |-> None]
         /\ inbox_tab = [rows |-> 1..n, selected |-> 0]
    /\ run_tab = [_run_in_progress |-> FALSE,
                  run_button_enabled |-> TRUE,
                  _auto_timer_active |-> FALSE,
                  in_as_completed |-> FALSE]
    /\ timers = 0
    /\ now = 0
    /\ dialog = None

\* the row is shown without the change of is_unread
AcknowledgeOnly(issue) ==
    IF issue.status = "Open" THEN [issue EXCEPT !.status = "Acknowledged"] ELSE issue

\* lines 451-463 of _on_selection_changed
Acknowledge(issue) ==
    LET acked == IF issue.status = "Open" THEN [issue EXCEPT !.status = "Acknowledged"]
                 ELSE issue
    IN  IF acked.is_unread THEN [acked EXCEPT !.is_unread = FALSE] ELSE acked

\* _on_selection_changed (lines 431-463), the selection having moved to a row
\* of the table (0: to no row)
SelectionChanged ==
    /\ pc = "app"
    /\ inbox_tab # None
    /\ ~run_tab.in_as_completed
    /\ dialog = None
    /\ \E row \in {0} \cup inbox_tab.rows :
         /\ row # inbox_tab.selected
         /\ inbox_tab' = [inbox_tab EXCEPT !.selected = row]
         /\ IF row = 0 THEN app_state' = app_state
            ELSE app_state' = [app_state EXCEPT !.issues[row] = Acknowledge(@)]
    /\ UNCHANGED <<inputs, callvars, generate_vars, run_tab, timers, now, dialog>>

\* _on_snooze_clicked (lines 379-393)
SnoozeClicked ==
    /\ pc = "app"
    /\ inbox_tab # None
    /\ ~run_tab.in_as_completed
    /\ dialog = None
    /\ IF inbox_tab.selected = 0 THEN app_state' = app_state
       ELSE app_state' = [app_state EXCEPT
                            !.issues[inbox_tab.selected] =
                                [@ EXCEPT !.status = "Snoozed",
                                          !.snoozed_until = <<now + SnoozeDays>>]]
    /\ UNCHANGED <<inputs, callvars, generate_vars, run_tab, inbox_tab, timers, now, dialog>>

\* _on_resolve_clicked (lines 395-408)
ResolveClicked ==
    /\ pc = "app"
    /\ inbox_tab # None
    /\ ~run_tab.in_as_completed
    /\ dialog = None
    /\ IF inbox_tab.selected = 0 THEN app_state' = app_state
       ELSE app_state' = [app_state EXCEPT
                            !.issues[inbox_tab.selected] =
                                [@ EXCEPT !.status = "Resolved",
                                          !.snoozed_until = None,
                                          !.is_unread = FALSE]]
    /\ UNCHANGED <<inputs, callvars, generate_vars, run_tab, inbox_tab, timers, now, dialog>>

\* _on_reopen_clicked (lines 410-423)
ReopenClicked ==
    /\ pc = "app"
    /\ inbox_tab # None
    /\ ~run_tab.in_as_completed
    /\ dialog = None
    /\ IF inbox_tab.selected = 0 THEN app_state' = app_state
       ELSE app_state' = [app_state EXCEPT
                            !.issues[inbox_tab.selected] =
                                [@ EXCEPT !.status = "Open",
                                          !.snoozed_until = None,
                                          !.is_unread = TRUE]]
    /\ UNCHANGED <<inputs, callvars, generate_vars, run_tab, inbox_tab, timers, now, dialog>>

\* the body of the loop of _apply_snooze_expirations (lines 349-371)
Expire(issue) ==
    IF issue.class # "dict" THEN issue
    ELSE IF issue.status # "Snoozed" THEN issue
    ELSE IF issue.snoozed_until = None THEN issue
    ELSE IF ~(issue.snoozed_until[1] <= now) THEN issue
    ELSE [issue EXCEPT !.status = "Open", !.is_unread = TRUE, !.snoozed_until = None]

\* _apply_snooze_expirations (lines 346-377) on the tick of _snooze_timer; when
\* an issue changed, issuesChanged runs _rebuild_model (line 193), which empties
\* the table and with it the selection, and fills it again
SnoozeTimerTimeout ==
    /\ pc = "app"
    /\ inbox_tab # None
    /\ ~run_tab.in_as_completed
    /\ LET expired == [i \in 1..Len(app_state.issues) |-> Expire(app_state.issues[i])]
       IN  /\ app_state' = [app_state EXCEPT !.issues = expired]
           /\ inbox_tab' = IF expired # app_state.issues
                           THEN [rows |-> TableRows(expired), selected |-> 0]
                           ELSE inbox_tab
    /\ UNCHANGED <<inputs, callvars, generate_vars, run_tab, timers, now, dialog>>

\* a day passes
ClockAdvances ==
    /\ pc = "app"
    /\ inbox_tab # None
    /\ now < MaxNow
    /\ now' = now + 1
    /\ UNCHANGED <<inputs, callvars, generate_vars, app_state, run_tab, inbox_tab, timers,
                   dialog>>

\* the slots of the InboxTab and those of the tabs beside it, which write the
\* AppState it shows
NextInbox ==
    \/ SelectionChanged
    \/ SnoozeClicked
    \/ ResolveClicked
    \/ ReopenClicked
    \/ SnoozeTimerTimeout
    \/ ClockAdvances
    \/ NextRunTab

SpecInbox == InitInbox /\ [][NextInbox]_vars

\* ---------------------------------------------------------------------
\* properties of the returned dataset
\* ---------------------------------------------------------------------
OppsOf(acct_id) == {o \in 1..Len(opportunities) : opportunities[o].accountId = acct_id}

AllAmounts == SumSeq([o \in 1..Len(opportunities) |-> opportunities[o].amount])

\* C1: the amounts of the opportunities of an account never add up to more than
\* TAM_PER_DEVELOPER * numDevelopers: in every attempt the retry loop keeps, and
\* in the dataset generate() returns.
C1_TamInvariant ==
    /\ best # None =>
         \A a \in 1..Len(accounts) :
            SumSeq(best[accounts[a].id]) <= TAM_PER_DEVELOPER * accounts[a].numDevelopers
    /\ Returned =>
         \A a \in 1..Len(accounts) :
            AccountTotal(opportunities, accounts[a].id)
               <= TAM_PER_DEVELOPER * accounts[a].numDevelopers

\* a returned dataset with an account whose opportunities fill its cap exactly
C1_Witness ==
    /\ Returned
    /\ \E a \in 1..Len(accounts) :
         /\ accounts[a].inPipeline
         /\ AccountTotal(opportunities, accounts[a].id)
               = TAM_PER_DEVELOPER * accounts[a].numDevelopers

\* C2: when generate() returns, the sum of all opportunity amounts lies in
\* [TOTAL_PIPELINE_MIN, TOTAL_PIPELINE_MAX].
C2_PipelineRange ==
    Returned => TOTAL_PIPELINE_MIN <= AllAmounts /\ AllAmounts <= TOTAL_PIPELINE_MAX

\* a dataset returned from the second attempt, its total off the target
C2_Witness ==
    Returned /\ attempt = 2 /\ AllAmounts # TOTAL_PIPELINE_TARGET

\* C3: once _reconcile_opp_counts has returned, the counts add up to
\* NUM_OPPORTUNITIES (its local total is the sum of the counts all along), and
\* generate() returns exactly NUM_OPPORTUNITIES opportunities.
C3_ReconcileTotals ==
    /\ pc = "reconcile" => total = SumSeq(opp_counts)
    /\ pc \in {"amounts", "check", "opps", "dates", "regions", "quotas", "done"} =>
         SumSeq(opp_counts) = NUM_OPPORTUNITIES
    /\ Returned => Len(opportunities) = NUM_OPPORTUNITIES

\* the call is about to return after two iterations of its loops
C3_Witness ==
    pc = "reconcile" /\ iters = 2 /\ total = NUM_OPPORTUNITIES

\* C4: in a returned dataset exactly round(NUM_OPPORTUNITIES * RECENT_CLOSE_PCT)
\* opportunities close inside the recent window, all others close inside the
\* future window, and no close date lies in both windows.
C4_CloseDateSplit ==
    Returned =>
      /\ Cardinality({o \in 1..Len(opportunities) :
                        InWindow(opportunities[o].closeDate, RECENT_CLOSE_WINDOW)})
           = PyRound(NUM_OPPORTUNITIES * RECENT_CLOSE_PCT, 100)
      /\ \A o \in 1..Len(opportunities) :
           InWindow(opportunities[o].closeDate, RECENT_CLOSE_WINDOW)
              # InWindow(opportunities[o].closeDate, FUTURE_CLOSE_WINDOW)

\* a returned dataset with a close date on the last recent day and one on the
\* last future day
C4_Witness ==
    /\ Returned
    /\ \E o \in 1..Len(opportunities) :
         opportunities[o].closeDate = RECENT_CLOSE_WINDOW.end
    /\ \E o \in 1..Len(opportunities) :
         opportunities[o].closeDate = FUTURE_CLOSE_WINDOW.end

\* C6: in a returned dataset every opportunity names a returned account and
\* carries that account's repId.
C6_OppReferences ==
    Returned =>
      \A o \in 1..Len(opportunities) :
         /\ \E a \in 1..Len(accounts) : accounts[a].id = opportunities[o].accountId
         /\ \A a \in 1..Len(accounts) :
              accounts[a].id = opportunities[o].accountId =>
                 opportunities[o].repId = accounts[a].repId

\* a returned dataset whose opportunities belong to accounts of different reps
C6_Witness ==
    /\ Returned
    /\ \E o1, o2 \in 1..Len(opportunities) :
         /\ opportunities[o1].accountId # opportunities[o2].accountId
         /\ opportunities[o1].repId # opportunities[o2].repId

\* C7: in a returned dataset every account is owned by a returned rep of the
\* same territory, has that rep's homeState as its state, and the rep's
\* homeState and region are not empty.
C7_AccountOwnership ==
    Returned =>
      \A a \in 1..Len(accounts) :
         /\ \E r \in 1..Len(reps) : reps[r].id = accounts[a].repId
         /\ \A r \in 1..Len(reps) :
              reps[r].id = accounts[a].repId =>
                 /\ accounts[a].territoryId = reps[r].territoryId
                 /\ accounts[a].state = reps[r].homeState
                 /\ reps[r].homeState # ""
                 /\ reps[r].region # ""

\* a returned dataset with accounts in different territories and states
C7_Witness ==
    /\ Returned
    /\ \E a1, a2 \in 1..Len(accounts) :
         /\ accounts[a1].territoryId # accounts[a2].territoryId
         /\ accounts[a1].state # accounts[a2].state

\* C8: in a returned dataset the i-th rep, account, opportunity and territory
\* has id i.
C8_SequentialIds ==
    Returned =>
      /\ \A i \in 1..Len(reps) : reps[i].id = i
      /\ \A i \in 1..Len(accounts) : accounts[i].id = i
      /\ \A i \in 1..Len(opportunities) : opportunities[i].id = i
      /\ \A i \in 1..Len(territories) : territories[i].id = i

\* a returned dataset whose only territory is not the first industry of the
\* vocabulary order
C8_Witness ==
    /\ Returned
    /\ Len(territories) = 1
    /\ territories[1].name = <<"Retail", "Territory">>
    /\ Len(industries_vocab) = 2
    /\ Len(opportunities) = NUM_OPPORTUNITIES

\* C9: in a returned dataset no two reps, no two accounts and no two
\* opportunities have the same name.
C9_UniqueNames ==
    Returned =>
      /\ \A i, j \in 1..Len(reps) : i # j => reps[i].name # reps[j].name
      /\ \A i, j \in 1..Len(accounts) : i # j => accounts[i].name # accounts[j].name
      /\ \A i, j \in 1..Len(opportunities) :
           i # j => opportunities[i].name # opportunities[j].name

\* C10: every dataset generate() returns passes validate() under the
\* expectations of its own settings.
C10_ReturnedValidates ==
    Returned => validate(reps, accounts, opportunities, territories, Expected)

\* every check of validate() other than the name check passes on a returned dataset
ReturnedValidatesButNames ==
    Returned =>
      /\ V_Counts(reps, accounts, opportunities, Expected)
      /\ V_Ids(reps, accounts, opportunities, territories)
      /\ V_UniqueIds(reps, accounts, territories)
      /\ V_AccountRelations(reps, accounts, territories)
      /\ V_OppRelations(reps, accounts, opportunities)
      /\ V_PipelineAndTam(accounts, opportunities, Expected)
      /\ V_CloseDates(opportunities, Expected)
      /\ V_Total(opportunities, Expected)
      /\ V_Reps(reps)

\* the pipeline of a territory, summed over the returned opportunities
PipelineOfTerritory(terr_id) ==
    SumSeq([o \in 1..Len(opportunities) |->
              IF \E a \in 1..Len(accounts) :
                    /\ accounts[a].id = opportunities[o].accountId
                    /\ accounts[a].territoryId = terr_id
              THEN opportunities[o].amount ELSE 0])

RepsInTerritory(terr_id) == Cardinality({r \in 1..Len(reps) : reps[r].territoryId = terr_id})

\* C11: in a returned dataset every rep's quota is a positive integer inside
\* [QUOTA_MIN, QUOTA_MAX]: the clamp of
\* round(territoryPipeline / repsInTerritory * QUOTA_MULTIPLIER_ON_TERRITORY_PIPELINE);
\* no rep keeps the placeholder 0.
C11_QuotaRange ==
    Returned =>
      \A r \in 1..Len(reps) :
         LET q == RoundProduct(PipelineOfTerritory(reps[r].territoryId),
                               RepsInTerritory(reps[r].territoryId),
                               QUOTA_MULTIPLIER_ON_TERRITORY_PIPELINE, 100)
         IN  /\ reps[r].quota \in Int
             /\ reps[r].quota > 0
             /\ QUOTA_MIN <= reps[r].quota /\ reps[r].quota <= QUOTA_MAX
             /\ q < QUOTA_MIN => reps[r].quota = QUOTA_MIN
             /\ q > QUOTA_MAX => reps[r].quota = QUOTA_MAX
             /\ (QUOTA_MIN <= q /\ q <= QUOTA_MAX) => reps[r].quota = q

\* a returned dataset with a rep of a territory without pipeline, lifted to
\* QUOTA_MIN, and a rep whose quota is cut to QUOTA_MAX
C11_Witness ==
    /\ Returned
    /\ \E r1, r2 \in 1..Len(reps) :
         /\ PipelineOfTerritory(reps[r1].territoryId) = 0
         /\ reps[r1].quota = QUOTA_MIN
         /\ reps[r2].quota = QUOTA_MAX

\* the target cannot be met: below it with no count under the upper end of the
\* band, or above it with no count over the lower end
Infeasible ==
    \/ /\ total < settings.NUM_OPPORTUNITIES
       /\ \A i \in 1..Len(opp_counts) : opp_counts[i] >= settings.OPPS_PER_ACCOUNT_MAX
    \/ /\ total > settings.NUM_OPPORTUNITIES
       /\ \A i \in 1..Len(opp_counts) : opp_counts[i] <= settings.OPPS_PER_ACCOUNT_MIN

\* C12: _reconcile_opp_counts never returns counts whose sum differs from the
\* target; when the target cannot be met its next step is a raise, and nothing
\* follows a raise.  With OPPS_PER_ACCOUNT_MIN = OPPS_PER_ACCOUNT_MAX = 0 and
\* NUM_OPPORTUNITIES > 0 the counts generate() draws at line 286 cannot meet
\* the target, so generate() raises.
C12_InfeasibleRaises ==
    /\ [](pc = "amounts" => SumSeq(opp_counts) = settings.NUM_OPPORTUNITIES)
    /\ [][(pc = "reconcile" /\ Infeasible) =>
             (pc' = "raised" /\ err' \in {"CannotAdd", "CannotRemove"})]_vars
    /\ [][(/\ pc = "counts"
           /\ settings.OPPS_PER_ACCOUNT_MIN = 0
           /\ settings.OPPS_PER_ACCOUNT_MAX = 0
           /\ settings.NUM_OPPORTUNITIES > 0) =>
             (pc' = "reconcile" /\ Infeasible')]_vars
    /\ [][pc # "raised"]_vars

\* the band is [0, 0], the target is positive, every account drew 0
\* opportunities and the call has raised
C12_Witness ==
    /\ pc = "raised"
    /\ err = "CannotAdd"
    /\ settings.OPPS_PER_ACCOUNT_MIN = 0
    /\ settings.OPPS_PER_ACCOUNT_MAX = 0
    /\ settings.NUM_OPPORTUNITIES > 0
    /\ Len(opp_counts) = NUM_ACCOUNTS
    /\ \A i \in 1..Len(opp_counts) : opp_counts[i] = 0

\* the total of the attempt the retry loop holds lies in the accepted range
BestInRange ==
    /\ best # None
    /\ TOTAL_PIPELINE_MIN <= GrandTotal(best)
    /\ GrandTotal(best) <= TOTAL_PIPELINE_MAX

\* C13: the retry loop makes at most AMOUNT_RETRY_LIMIT attempts; it goes on
\* only while no attempt has landed in [TOTAL_PIPELINE_MIN, TOTAL_PIPELINE_MAX]
\* and is left early only with such an attempt; when the attempts are used up
\* without one, generate() raises, and nothing follows the raise.
C13_RetryLoop ==
    /\ [](attempt <= AMOUNT_RETRY_LIMIT)
    /\ [](pc = "amounts" => ~BestInRange)
    /\ [](pc = "check" => BestInRange)
    /\ [](err = "PipelineTargetUnreachable" =>
            attempt = AMOUNT_RETRY_LIMIT /\ best # None /\ ~BestInRange)
    /\ [][(pc = "amounts" /\ attempt = AMOUNT_RETRY_LIMIT) =>
             (pc' = "raised" /\ opportunities' = <<>>)]_vars
    /\ [][pc = "raised" => FALSE]_vars

\* every attempt was made, none landed in the range, and generate() has raised
C13_Witness ==
    /\ pc = "raised"
    /\ err = "PipelineTargetUnreachable"
    /\ attempt = AMOUNT_RETRY_LIMIT
    /\ ~BestInRange

\* C14: generate() returns five collections, (reps, accounts, opportunities,
\* territories, opportunityHistory); the fifth is not empty and each of its
\* records carries the id of a returned opportunity.
C14_FiveCollections ==
    Returned =>
      /\ Len(ReturnValue) = 5
      /\ ReturnValue[1] = reps
      /\ ReturnValue[2] = accounts
      /\ ReturnValue[3] = opportunities
      /\ ReturnValue[4] = territories
      /\ ReturnValue[5] # <<>>
      /\ \A h \in 1..Len(ReturnValue[5]) :
           \E o \in 1..Len(opportunities) :
              opportunities[o].id = ReturnValue[5][h].opportunity_id

\* C15: in a returned dataset exactly round(NUM_OPPORTUNITIES * MISSING_CLOSE_PCT)
\* opportunities have no close date (closeDate is None).
C15_MissingCloseDates ==
    Returned =>
      Cardinality({o \in 1..Len(opportunities) : opportunities[o].closeDate = None})
         = PyRound(NUM_OPPORTUNITIES * MISSING_CLOSE_PCT, 100)

\* some account lies in a territory that no rep was given
TerritoryWithoutRep ==
    \E a \in 1..Len(accounts) :
       \A r \in 1..Len(reps) : reps[r].territoryId # accounts[a].territoryId

\* C16: once ownership is assigned every account is owned by a rep whose
\* territoryId is the account's; when some account's territory has no rep the
\* ownership step raises, it raises in no other case, and nothing follows the
\* raise.
C16_OwnershipOrRaise ==
    /\ [](pc = "counts" =>
            \A a \in 1..Len(accounts) :
               \E r \in 1..Len(reps) :
                  /\ reps[r].id = accounts[a].repId
                  /\ reps[r].territoryId = accounts[a].territoryId)
    /\ [][pc = "ownership" =>
             IF TerritoryWithoutRep
             THEN pc' = "raised" /\ err' = "NoRepsAvailable"
             ELSE pc' = "counts"]_vars
    /\ [][pc = "raised" => pc' = "raised"]_vars

\* there are reps, but none in the territory of some account, and generate()
\* has raised
C16_Witness ==
    /\ pc = "raised"
    /\ err = "NoRepsAvailable"
    /\ reps # <<>>
    /\ TerritoryWithoutRep

\* C17: after rep generation every rep carries the id of an existing
\* territory, and whenever NUM_REPS >= number of territories >= 1 every
\* territory has at least one rep, whatever order the shuffle left.
C17_RoundRobinCoverage ==
    pc \in {"ownership", "counts"} =>
      /\ Len(reps) = settings.NUM_REPS
      /\ \A r \in 1..Len(reps) :
           \E t \in 1..Len(territories) : territories[t].id = reps[r].territoryId
      /\ (settings.NUM_REPS >= Len(territories) /\ Len(territories) >= 1) =>
            \A t \in 1..Len(territories) :
               \E r \in 1..Len(reps) : reps[r].territoryId = territories[t].id

\* three reps over two territories, the shuffle having put territory 2 first:
\* the third rep wraps around to it
C17_Witness ==
    /\ pc = "ownership"
    /\ settings.NUM_REPS = 3
    /\ Len(territories) = 2
    /\ reps[1].territoryId = 2
    /\ reps[2].territoryId = 1
    /\ reps[3].territoryId = 2

\* the industry a territory is named after
IndustryOf(terr) == terr.name[1]

\* C18: once the territories are derived there is exactly one per industry
\* present among the accounts, with ids 1..k in sorted industry order and the
\* name '<Industry> Territory'; every account carries the id of the territory
\* of its own industry, so no territory is without accounts.
C18_TerritoriesFromIndustries ==
    pc \notin {"accounts", "territories"} =>
      LET present == {accounts[a].industry : a \in 1..Len(accounts)}
      IN  /\ Len(territories) = Cardinality(present)
          /\ \A t \in 1..Len(territories) :
               /\ territories[t].id = t
               /\ IndustryOf(territories[t]) \in present
               /\ territories[t].name = <<IndustryOf(territories[t]), "Territory">>
          /\ \A t1, t2 \in 1..Len(territories) :
               t1 < t2 => IndustryRank(IndustryOf(territories[t1]))
                             < IndustryRank(IndustryOf(territories[t2]))
          /\ \A a \in 1..Len(accounts) :
               \E t \in 1..Len(territories) :
                  /\ IndustryOf(territories[t]) = accounts[a].industry
                  /\ accounts[a].territoryId = territories[t].id
          /\ \A t \in 1..Len(territories) :
               \E a \in 1..Len(accounts) : accounts[a].territoryId = territories[t].id

\* a returned dataset whose first account has the industry that sorts last:
\* the account generated first lies in territory 2
C18_Witness ==
    /\ Returned
    /\ Len(territories) = 2
    /\ accounts[1].industry = "Retail"
    /\ accounts[1].territoryId = 2
    /\ territories[1].name = <<"Mining", "Territory">>

\* the blocks of validate() in the order of the source
CheckOrder ==
    <<"counts", "ids", "duplicate ids", "duplicate names", "account relations",
      "opportunity relations", "pipeline and TAM", "close dates", "total", "reps">>

\* the dataset and expectations validate() was called with violate the block
Violated(block) ==
    CASE block = "counts" -> ~V_Counts(reps, accounts, opportunities, args)
      [] block = "ids" -> ~V_Ids(reps, accounts, opportunities, territories)
      [] block = "duplicate ids" -> ~V_UniqueIds(reps, accounts, territories)
      [] block = "duplicate names" -> ~V_UniqueNames(reps, accounts, opportunities, territories)
      [] block = "account relations" -> ~V_AccountRelations(reps, accounts, territories)
      [] block = "opportunity relations" -> ~V_OppRelations(reps, accounts, opportunities)
      [] block = "pipeline and TAM" -> ~V_PipelineAndTam(accounts, opportunities, args)
      [] block = "close dates" -> ~V_CloseDates(opportunities, args)
      [] block = "total" -> ~V_Total(opportunities, args)
      [] block = "reps" -> ~V_Reps(reps)

\* C19: validate() raises ValueError from the first block, in the order of
\* the source, that the dataset violates, and returns only when no block is
\* violated; a wrong expected count raises from the first block, and a
\* duplicated rep id always raises.
C19_FirstViolationRaises ==
    /\ pc = "validated" =>
         /\ ret = "ok"
         /\ \A i \in 1..Len(CheckOrder) : ~Violated(CheckOrder[i])
    /\ (pc = "raised" /\ err = "ValueError") =>
         \E i \in 1..Len(CheckOrder) :
            /\ ret = CheckOrder[i]
            /\ Violated(CheckOrder[i])
            /\ \A j \in 1..(i - 1) : ~Violated(CheckOrder[j])
    /\ pc \in {"validated", "raised"} =>
         /\ (\/ Len(reps) # args.reps
             \/ Len(accounts) # args.accounts
             \/ Len(opportunities) # args.opportunities) => ret = "counts"
         /\ (\E i, j \in 1..Len(reps) : i # j /\ reps[i].id = reps[j].id) =>
               pc = "raised"

\* the call raised from the name block on a dataset that also has a rep
\* without quota: the later violation is not the one reported
C19_Witness ==
    /\ pc = "raised"
    /\ ret = "duplicate names"
    /\ Violated("reps")

\* C20: Rng.date_between(start, end) returns a date d with start <= d <= end,
\* exactly start when start = end; when end precedes start it raises before
\* anything is drawn from the random source, which it leaves as it was.
C20_DateBetween ==
    /\ [](pc = "date" =>
            /\ IsYmd(ret)
            /\ DateLE(args.start, ret)
            /\ DateLE(ret, args.end)
            /\ args.start = args.end => ret = args.start)
    /\ [](pc = "raised" =>
            /\ ~DateLE(args.start, args.end)
            /\ draws = 0
            /\ ret = None)
    /\ [][(pc = "date_between" /\ ~DateLE(args.start, args.end)) =>
             (pc' = "raised" /\ draws' = 0)]_vars
    /\ [][draws' # draws => DateLE(args.start, args.end)]_vars

\* the window of the test, 2026-12-31..2026-01-01: the call has raised and
\* nothing was drawn
C20_Witness ==
    /\ pc = "raised"
    /\ err = "InvalidDateWindow"
    /\ args = [start |-> [y |-> 2026, m |-> 12, d |-> 31],
               end |-> [y |-> 2026, m |-> 1, d |-> 1]]
    /\ draws = 0

\* the texts an entry of a states list carries under a key
FieldTexts(entry, key) ==
    {entry.items[i].val.s : i \in {j \in 1..Len(entry.items) :
                                     /\ entry.items[j].k = JStr(key)
                                     /\ entry.items[j].val.t = "str"}}

\* the positions of the list under 'states' that hold a dict whose state and
\* region are both strings; none when there is no such list
UsableEntries(obj) ==
    IF obj.t # "dict" THEN {}
    ELSE UNION {{i \in 1..Len(obj.items[j].val.items) :
                   LET entry == obj.items[j].val.items[i].val
                   IN  /\ entry.t = "dict"
                       /\ FieldTexts(entry, "state") # {}
                       /\ FieldTexts(entry, "region") # {}} :
                j \in {j \in 1..Len(obj.items) :
                         obj.items[j].k = JStr("states") /\ obj.items[j].val.t = "list"}}

StatesEntry(obj, i) ==
    (CHOOSE it \in Range(obj.items) : it.k = JStr("states")).val.items[i].val

FlatInput(obj) ==
    /\ obj.t = "dict"
    /\ \A i \in 1..Len(obj.items) : obj.items[i].k.t = "str" /\ obj.items[i].val.t = "str"

\* C21: parse_state_region_mapping returns a dict of strings to strings as it
\* is; for any other dict it returns the map of the entries of obj['states']
\* whose state and region are both strings (a later entry replacing an earlier
\* one of the same state) when there is such an entry; and it raises for
\* every other input.
C21_ParseMapping ==
    /\ pc = "parsed" =>
         IF FlatInput(args)
         THEN /\ DOMAIN ret = {args.items[i].k.s : i \in 1..Len(args.items)}
              /\ \A i \in 1..Len(args.items) : ret[args.items[i].k.s] = args.items[i].val.s
         ELSE /\ UsableEntries(args) # {}
              /\ DOMAIN ret = UNION {FieldTexts(StatesEntry(args, i), "state") :
                                       i \in UsableEntries(args)}
              /\ \A i \in UsableEntries(args) :
                   (\A j \in UsableEntries(args) :
                       j > i => FieldTexts(StatesEntry(args, j), "state")
                                   # FieldTexts(StatesEntry(args, i), "state"))
                   => \A st \in FieldTexts(StatesEntry(args, i), "state") :
                         {ret[st]} = FieldTexts(StatesEntry(args, i), "region")
    /\ (pc = "raised" /\ err = "InvalidRegionMapping") =>
         /\ ~FlatInput(args)
         /\ UsableEntries(args) = {}
         /\ ret = None
    /\ pc \in {"parsed", "raised"} =>
         (FlatInput(args) \/ UsableEntries(args) # {}) = (pc = "parsed")

\* a states list with an entry that is no dict and an entry whose state and
\* region are strings: the first is skipped, the second returned
C21_Witness ==
    /\ pc = "parsed"
    /\ ~FlatInput(args)
    /\ UsableEntries(args) = {2}
    /\ StatesEntry(args, 1) = JStr("bad entry")
    /\ DOMAIN ret = {"NY"}
    /\ ret["NY"] = "East"

\* C22: for a list of non-negative amounts and tam >= 0, _enforce_tam_int
\* returns a list of the same length of non-negative integers whose sum is
\* at most tam, the input itself when its sum is already at most tam, and it
\* leaves the list it was given as it was.
C22_EnforceTam ==
    /\ [](pc = "enforced" =>
            /\ Len(ret) = Len(args.amounts)
            /\ \A j \in 1..Len(ret) : ret[j] \in Nat
            /\ SumSeq(ret) <= args.tam
            /\ SumSeq(args.amounts) <= args.tam => ret = args.amounts)
    /\ [][args' = args]_vars

\* three amounts of 1 against a tam of 2: each rounds back to 1, and the
\* loop takes one unit off the first
C22_Witness ==
    /\ pc = "enforced"
    /\ args = [amounts |-> <<1, 1, 1>>, tam |-> 2]
    /\ ret = <<0, 1, 1>>

\* every account total of the amounts is within the account's TAM
WithinTam(amts) ==
    \A a \in 1..Len(accounts) :
       SumSeq(amts[a]) <= TAM_PER_DEVELOPER * accounts[a].numDevelopers

\* C23: when every account total is within its TAM before _try_global_scale,
\* every account total is within its TAM after it, whether the amounts were
\* scaled down or up; each account keeps its number of amounts.
C23_ScalePreservesCap ==
    pc = "scaled" =>
      /\ WithinTam(args) => WithinTam(ret)
      /\ Len(ret) = Len(args)
      /\ \A a \in 1..Len(args) : Len(ret[a]) = Len(args[a])

\* a total below the target that is scaled up until an account that had
\* headroom fills its TAM exactly
C23_Witness ==
    /\ pc = "scaled"
    /\ WithinTam(args)
    /\ SumSeq([a \in 1..Len(ret) |-> SumSeq(ret[a])])
          > SumSeq([a \in 1..Len(args) |-> SumSeq(args[a])])
    /\ \E a \in 1..Len(accounts) :
         /\ SumSeq(args[a]) < TAM_PER_DEVELOPER * accounts[a].numDevelopers
         /\ SumSeq(ret[a]) = TAM_PER_DEVELOPER * accounts[a].numDevelopers

\* the sum of all the amounts of all the accounts
DatasetTotal(amts) == SumSeq([a \in 1..Len(amts) |-> SumSeq(amts[a])])

\* C27: when every account total is within its TAM and the dataset total is
\* positive, the total after _try_global_scale is no further from
\* TOTAL_PIPELINE_TARGET than the total before it, rounding and the
\* re-applied TAM enforcement included.
C27_ScaleTowardsTarget ==
    (pc = "scaled" /\ WithinTam(args) /\ DatasetTotal(args) > 0) =>
       Abs(DatasetTotal(ret) - TOTAL_PIPELINE_TARGET)
         <= Abs(DatasetTotal(args) - TOTAL_PIPELINE_TARGET)

\* a total above the target scaled down, the rounded amounts landing off the
\* target but nearer to it
C27_Witness ==
    /\ pc = "scaled"
    /\ WithinTam(args)
    /\ DatasetTotal(args) > TOTAL_PIPELINE_TARGET
    /\ DatasetTotal(ret) # TOTAL_PIPELINE_TARGET
    /\ DatasetTotal(ret) < DatasetTotal(args)

\* C24: when the retry loop has used up its AMOUNT_RETRY_LIMIT attempts
\* without one in range, the attempt it holds, whose total the error reports,
\* is as close to TOTAL_PIPELINE_TARGET as any attempt made.  Every attempt
\* leaves best_dist at or below its own distance and never raises it, and
\* while the loop goes on and when generate() raises best_dist is the distance
\* of the attempt held; so that distance is the least of all the attempts.
C24_KeepsClosestAttempt ==
    /\ [][attempt' # attempt =>
             /\ attempt' = attempt + 1
             /\ ~best_dist'.inf
             /\ best_dist'.v <= Abs(total' - TOTAL_PIPELINE_TARGET)
             /\ best_dist.inf \/ best_dist'.v <= best_dist.v]_vars
    /\ [][best_dist' # best_dist => attempt' = attempt + 1]_vars
    /\ []((pc = "amounts" /\ best # None) =>
             best_dist = [inf |-> FALSE,
                          v |-> Abs(DatasetTotal(best) - TOTAL_PIPELINE_TARGET)])
    /\ [](err = "PipelineTargetUnreachable" =>
             /\ total = DatasetTotal(best)
             /\ best_dist.v = Abs(total - TOTAL_PIPELINE_TARGET))

\* the attempts are used up, and the last one was farther from the target
\* than the one held
C24_Witness ==
    /\ pc = "amounts"
    /\ attempt = AMOUNT_RETRY_LIMIT
    /\ best # None
    /\ Abs(total - TOTAL_PIPELINE_TARGET) > best_dist.v
    /\ best_dist.v = Abs(DatasetTotal(best) - TOTAL_PIPELINE_TARGET)

\* every count lies in [OPPS_PER_ACCOUNT_MIN, OPPS_PER_ACCOUNT_MAX]
InBand(counts) ==
    \A i \in 1..Len(counts) :
       settings.OPPS_PER_ACCOUNT_MIN <= counts[i] /\ counts[i] <= settings.OPPS_PER_ACCOUNT_MAX

\* C25: every iteration of _reconcile_opp_counts changes exactly one count, by
\* exactly 1: up only from below OPPS_PER_ACCOUNT_MAX, down only from above
\* OPPS_PER_ACCOUNT_MIN; so counts that are all in the band stay in the band.
C25_ReconcileStaysInBand ==
    /\ [][(pc = "reconcile" /\ pc' = "reconcile") => opp_counts' # opp_counts]_vars
    /\ [][(pc = "reconcile" /\ opp_counts' # opp_counts) =>
             /\ Len(opp_counts') = Len(opp_counts)
             /\ \E i \in 1..Len(opp_counts) :
                  /\ \A j \in 1..Len(opp_counts) : j # i => opp_counts'[j] = opp_counts[j]
                  /\ \/ /\ opp_counts'[i] = opp_counts[i] + 1
                        /\ opp_counts[i] < settings.OPPS_PER_ACCOUNT_MAX
                     \/ /\ opp_counts'[i] = opp_counts[i] - 1
                        /\ opp_counts[i] > settings.OPPS_PER_ACCOUNT_MIN
             /\ InBand(opp_counts) => InBand(opp_counts')]_vars

\* after two iterations the counts are in the band, one of them at its upper
\* end, and the target is still above the sum
C25_Witness ==
    /\ pc = "reconcile"
    /\ iters = 2
    /\ InBand(opp_counts)
    /\ total < settings.NUM_OPPORTUNITIES
    /\ \E i \in 1..Len(opp_counts) : opp_counts[i] = settings.OPPS_PER_ACCOUNT_MAX
    /\ \E i \in 1..Len(opp_counts) : opp_counts[i] < settings.OPPS_PER_ACCOUNT_MAX

\* C26: _reconcile_opp_counts terminates.  An iteration is entered only while
\* the sum differs from the target, and it either raises or takes the sum of
\* the counts one step nearer to the target; with iters 0 at the start, iters
\* plus the distance left stays the distance at the start, and a raise comes
\* with distance left, so no more than |target - initial sum| iterations are
\* made.  The call returns only with the sum on the target.
C26_ReconcileTerminates ==
    /\ [](pc = "counts" => iters = 0)
    /\ [](pc = "reconcile" => total = SumSeq(opp_counts))
    /\ [][pc = "counts" => iters' = 0]_vars
    /\ [][pc = "reconcile" =>
             \/ /\ pc' = "raised"
                /\ SumSeq(opp_counts) # settings.NUM_OPPORTUNITIES
                /\ opp_counts' = opp_counts
             \/ /\ pc' = "amounts"
                /\ SumSeq(opp_counts) = settings.NUM_OPPORTUNITIES
                /\ opp_counts' = opp_counts
             \/ /\ pc' = "reconcile"
                /\ iters' = iters + 1
                /\ Abs(settings.NUM_OPPORTUNITIES - SumSeq(opp_counts'))
                     = Abs(settings.NUM_OPPORTUNITIES - SumSeq(opp_counts)) - 1]_vars
    /\ <>(pc \in {"amounts", "raised"})

\* two iterations were made and the third one raised
C26_Witness ==
    /\ pc = "raised"
    /\ err = "CannotRemove"
    /\ iters = 2

\* C28: at most one run is in progress.  While _run_in_progress is set no click
\* and no timer tick starts a run or changes the state, so at most one
\* _finish_run is scheduled, and only during a run; every _finish_run that runs
\* appends exactly one Run, with run_id one above the largest run_id there
\* was, and nothing else adds a Run.
C28_OneRunAtATime ==
    /\ [](timers <= 1)
    /\ [](timers = 1 => run_tab._run_in_progress)
    /\ [][(run_tab._run_in_progress /\ (RunButtonClicked \/ AutoTimerTimeout)) =>
             UNCHANGED <<app_state, run_tab, timers>>]_vars
    /\ [][(run_tab._run_in_progress /\ timers' >= timers) =>
             /\ timers' = timers
             /\ app_state'.runs = app_state.runs
             /\ run_tab'._run_in_progress]_vars
    /\ [][timers' > timers => (~run_tab._run_in_progress /\ app_state' = app_state)]_vars
    /\ [][app_state'.runs # app_state.runs => timers' < timers]_vars
    /\ [][timers' < timers =>
             /\ Len(app_state'.runs) = Len(app_state.runs) + 1
             /\ SubSeq(app_state'.runs, 1, Len(app_state.runs)) = app_state.runs
             /\ \A i \in 1..Len(app_state.runs) :
                  app_state'.runs[Len(app_state'.runs)].run_id > app_state.runs[i].run_id
             /\ \/ app_state'.runs[Len(app_state'.runs)].run_id = 1
                \/ \E i \in 1..Len(app_state.runs) :
                     app_state'.runs[Len(app_state'.runs)].run_id = app_state.runs[i].run_id + 1]_vars

\* C29: every run that is started completes: _run_in_progress is cleared
\* again, whatever the rule tasks do.
C29_RunsComplete == run_tab._run_in_progress ~> ~run_tab._run_in_progress

\* C30: under the actions of the Inbox, on issues that start Open without
\* snoozed_until: an issue has a snoozed_until only while it is Snoozed, its
\* status is one of Open, Acknowledged, Snoozed and Resolved, and an issue
\* that is Resolved or Acknowledged is not unread.
C30_IssueStatus ==
    inbox_tab # None =>
    \A i \in 1..Len(app_state.issues) :
       LET issue == app_state.issues[i]
       IN  /\ issue.snoozed_until # None => issue.status = "Snoozed"
           /\ issue.status \in {"Open", "Acknowledged", "Snoozed", "Resolved"}
           /\ issue.status \in {"Resolved", "Acknowledged"} => ~issue.is_unread

\* one issue was reopened and then snoozed, and its snooze has run out; the
\* other one was selected and then resolved
C30_Witness ==
    /\ inbox_tab # None
    /\ Len(app_state.issues) = NumIssues
    /\ app_state.issues[1].class = "dict"
    /\ app_state.issues[1].status = "Snoozed"
    /\ app_state.issues[1].is_unread
    /\ app_state.issues[1].snoozed_until # None
    /\ app_state.issues[1].snoozed_until[1] <= now
    /\ app_state.issues[2].status = "Resolved"

====
